---- MODULE Spec2Model ----
(***************************************************************************)
(* Model of the multi-agent bridge of claude-in-factorio:                  *)
(*   - the Event Tailer      (bridge/transport.py, InputWatcher)           *)
(*   - the Protocol Transport and its Concurrency Guard (bridge/rcon.py)   *)
(*   - the Agent Workers and the Router (bridge/pipe.py)                   *)
(*   - the Session Store     (bridge/pipe.py, load_session, save_session)  *)
(*   - the bracket escaping  (bridge/rcon.py, lua_long_string)             *)
(* Each component has its own specification over the shared variables:     *)
(* SpecTail, SpecRcon, SpecWork, SpecStore and SpecLua.  In SpecWork the   *)
(* session file of an agent is represented by the token load_session would *)
(* return for it; SpecStore models the text of the file.                   *)
(***************************************************************************)
EXTENDS Integers, Sequences, FiniteSets, TLC

VARIABLES
    \* ---- Event Tailer and the log file it tails
    fileExists,     \* input_file.exists()
    file,           \* the bytes of input.jsonl
    nextSerial,     \* serial number of the next line the game appends
    initCount,      \* number of lines in the file when the tailer was built
    last_size,      \* InputWatcher.last_size
    current_size,   \* local current_size of the poll in progress
    tpc,            \* position of the router inside poll: idle / read / raised
    npolls,         \* number of polls started
    returned,       \* serial -> number of polls that returned that record
    sincePrev,      \* what the game did since the previous poll returned
    lastPoll,       \* observation of the latest completed poll
    truncs,         \* number of times the file was truncated
    \* ---- Protocol Transport (RCONClient) behind its guard (ThreadSafeRCON)
    lock,           \* ThreadSafeRCON._lock: the thread holding it, or "none"
    rpc,            \* thread -> its position inside ThreadSafeRCON.execute
    call,           \* thread -> the execute call it is making (or made last)
    ncalls,         \* number of execute calls started
    request_id,     \* RCONClient._request_id
    conn,           \* number of sockets opened so far (the current one)
    sockUp,         \* the current socket is connected
    auth,           \* how the authentication round of the current socket ended
    pending,        \* calls whose command was sent on the current socket and
                    \* whose response frame was not read yet, oldest first
    closed,         \* main_multi has called rcon.close()
    frames,         \* number of frames sendall was given for the current socket
    \* ---- Agent Workers (AgentThread) and the Router (main_multi)
    mcp_config,     \* AgentThread.mcp_config is set (the MCP binary was found)
    inbox,          \* agent -> AgentThread.inbox
    wstate,         \* agent -> "Idle", "Invoking" or "Dead" (thread ended)
    turn,           \* agent -> locals of the handle_message call in progress
    session_id,     \* agent -> AgentThread.session_id
    sessionFile,    \* agent -> token held by .session-<agent>.json
    inflight,       \* agent -> external processes launched and not finished
    nmsgs,          \* number of messages the router has read
    death,          \* agent -> what ended its thread ("none" while it runs)
    enqueued,       \* agent -> ids of the messages enqueued for it, in order
    replies,        \* agent -> ids of the messages it relayed a reply for
    routed,         \* target_agent of the message read by the step just taken
    relayed,        \* the reply relayed by the step just taken, and its turn
    \* ---- Session Store (load_session / save_session) and its files
    disk,           \* agent -> the file .session-<agent>.json
    shared,         \* the old shared file .sessions.json
    spc,            \* position of the process in save_session: idle/opened/down
    saving,         \* arguments of the save_session call in progress (or last)
    nsaves,         \* agent -> number of save_session calls started for it
    lastSaved,      \* agent -> token of its last save, once that save returned
    before,         \* what load_session gave just before the save in progress
    loaded,         \* the load_session call made by the step just taken
    \* ---- lua_long_string and the game's reading of what it returns
    text,           \* the argument of lua_long_string
    level,          \* local level
    lpc,            \* position: "scan" (in the while loop), "wrapped", "read"
    wrapped,        \* the value returned
    unwrapped,      \* what the reader of the long-bracket string obtained
    \* ---- the frame codec (_send_packet / _recv_packet)
    payload,        \* argument body of _send_packet: a string, as code points
    packet_type,    \* argument packet_type of _send_packet
    prev_id,        \* RCONClient._request_id when _send_packet is called
    packet,         \* the bytes _send_packet hands to sendall
    fpc,            \* position: "start", "sent", "raised" or "received"
    received,       \* what _recv_packet returned for those bytes
    \* ---- an external process that never terminates
    hung,           \* the agents whose external process never terminates
    \* ---- parse_response
    raw,            \* the argument of parse_response
    ppc,            \* position: "start" or "parsed"
    parsed,         \* the dict parse_response returned
    \* ---- sanitize_response
    dirty,          \* the argument of sanitize_response
    zpc,            \* position: "start" or "sanitized"
    clean,          \* the string sanitize_response returned
    \* ---- status notifications that fail
    status_lost,    \* agent -> the status notifications of its turn that raised
    \* ---- Task chains (bridge/taskchain.py)
    tasks_dir,      \* agent -> the task file tasks/<agent>.json
    chains,         \* agent -> the TaskChain object held for it, or NoChain
    chain_pc,       \* position: "start", "loaded" or "raised"
    started,        \* agent -> current_index of its chain when it was loaded
    advances,       \* agent -> number of advance calls made on its chain
    last_advance    \* observation of the latest advance call

tailVars == <<fileExists, file, nextSerial, initCount, last_size, current_size,
              tpc, npolls, returned, sincePrev, lastPoll, truncs>>

rconVars == <<lock, rpc, call, ncalls, request_id, conn, sockUp, auth, pending,
              closed, frames>>

workVars == <<mcp_config, inbox, wstate, death, turn, session_id, sessionFile,
              inflight, nmsgs, enqueued, replies, routed, relayed>>

storeVars == <<disk, shared, spc, saving, nsaves, lastSaved, before, loaded>>

luaVars == <<text, level, lpc, wrapped, unwrapped>>

frameVars == <<payload, packet_type, prev_id, packet, fpc, received>>

hangVars == <<hung>>

parseVars == <<raw, ppc, parsed>>

sanitizeVars == <<dirty, zpc, clean>>

statusVars == <<status_lost>>

chainVars == <<tasks_dir, chains, chain_pc, started, advances, last_advance>>

vars == <<tailVars, rconVars, workVars, storeVars, luaVars, frameVars,
          hangVars, parseVars, sanitizeVars, statusVars, chainVars>>

notTail == <<rconVars, workVars, storeVars, luaVars, frameVars, hangVars, parseVars, sanitizeVars, statusVars, chainVars>>
notRcon == <<tailVars, workVars, storeVars, luaVars, frameVars, hangVars, parseVars, sanitizeVars, statusVars, chainVars>>
notWork == <<tailVars, rconVars, storeVars, luaVars, frameVars, hangVars, parseVars, sanitizeVars, statusVars, chainVars>>
notStore == <<tailVars, rconVars, workVars, luaVars, frameVars, hangVars, parseVars, sanitizeVars, statusVars, chainVars>>
notLua == <<tailVars, rconVars, workVars, storeVars, frameVars, hangVars, parseVars, sanitizeVars, statusVars, chainVars>>
notFrame == <<tailVars, rconVars, workVars, storeVars, luaVars, hangVars, parseVars, sanitizeVars, statusVars, chainVars>>
notHang == <<tailVars, rconVars, workVars, storeVars, luaVars, frameVars, parseVars, sanitizeVars, statusVars, chainVars>>
notParse == <<tailVars, rconVars, workVars, storeVars, luaVars, frameVars, hangVars, sanitizeVars, statusVars, chainVars>>
notSanitize == <<tailVars, rconVars, workVars, storeVars, luaVars, frameVars, hangVars, parseVars, statusVars, chainVars>>
notNote == <<tailVars, rconVars, workVars, storeVars, luaVars, frameVars, hangVars, parseVars, sanitizeVars, chainVars>>
notWorkOrHang == <<tailVars, rconVars, storeVars, luaVars, frameVars, parseVars, sanitizeVars, statusVars, chainVars>>
notWorkOrNote == <<tailVars, rconVars, storeVars, luaVars, frameVars, hangVars, parseVars, sanitizeVars, chainVars>>
notChain == <<tailVars, rconVars, workVars, storeVars, luaVars, frameVars, hangVars, parseVars, sanitizeVars, statusVars>>

(***************************************************************************)
(* Bounds of the model.                                                    *)
(***************************************************************************)
MaxInitLines == 1
MaxLines == 3
MaxPolls == 3
MaxTruncs == 1
MaxCalls == 3
MaxMsgs == 2
MaxTurns == 2
MaxSaves == 2
MaxText == 4
MaxBody == 2
MaxRaw == 4
MaxDirty == 4
MaxTasks == 2
MaxAdvances == 3

(***************************************************************************)
(* The log file.  A line the game appends is one content byte followed by  *)
(* a newline byte; a blank line is the newline alone.  The content byte    *)
(* stands for the text of the line, by the way json.loads and msg.get      *)
(* treat it:                                                               *)
(*   "G"  a JSON object with a non-empty "message"                         *)
(*   "E"  a JSON object whose "message" is missing or empty                *)
(*   "X"  text that is not JSON                                            *)
(*   "L"  valid JSON that is not an object ([1], 5, null, "s")             *)
(***************************************************************************)
LineKinds == {"G", "E", "X", "L", "blank"}

NL == [k |-> "NL", n |-> 0]

LineBytes(kind, serial) ==
    IF kind = "blank" THEN <<NL>> ELSE <<[k |-> kind, n |-> serial], NL>>

Serials == 1..(MaxLines + 1)

(***************************************************************************)
(* InputWatcher.__init__: the offset starts at the size of the file, or at *)
(* 0 when the file does not exist.                                         *)
(***************************************************************************)
InitOffsetFromZero(exists, f) == 0

InitOffset(exists, f) == IF exists THEN Len(f) ELSE 0

(***************************************************************************)
(* poll, the size check: "if current_size <= self.last_size: return []"    *)
(***************************************************************************)
NoGrowthOnlyWhenEqual(cur, last) == cur = last

NoGrowth(cur, last) == cur <= last

(***************************************************************************)
(* poll, the read: f.seek(self.last_size); new_data = f.read().  The read  *)
(* runs to the end of the file as it is at the time of the read.           *)
(***************************************************************************)
ReadNew(f, off) == SubSeq(f, off + 1, Len(f))

(***************************************************************************)
(* new_data.strip().split("\n"), then line.strip() and "if not line:       *)
(* continue": the non-empty lines of the data, in order.                   *)
(***************************************************************************)
RECURSIVE SplitLines(_, _)
SplitLines(data, cur) ==
    IF data = <<>> THEN (IF cur = <<>> THEN <<>> ELSE <<cur>>)
    ELSE IF Head(data) = NL
         THEN (IF cur = <<>> THEN SplitLines(Tail(data), <<>>)
               ELSE <<cur>> \o SplitLines(Tail(data), <<>>))
         ELSE SplitLines(Tail(data), Append(cur, Head(data)))

(***************************************************************************)
(* One line through "msg = json.loads(line); if msg.get('message'): ..."   *)
(* under "except json.JSONDecodeError: continue":                          *)
(*   "rec"   the record is appended to messages                            *)
(*   "drop"  the line is skipped                                           *)
(*   "raise" an exception other than JSONDecodeError leaves poll           *)
(* Two JSON texts on one line are "Extra data" for json.loads.             *)
(***************************************************************************)
ParseLine(line) ==
    IF Len(line) # 1 THEN "drop"
    ELSE CASE line[1].k = "G" -> "rec"
           [] line[1].k = "E" -> "drop"
           [] line[1].k = "X" -> "drop"
           [] line[1].k = "L" -> "raise"
           [] OTHER -> "drop"

RECURSIVE Messages(_)
Messages(lines) ==
    IF lines = <<>> THEN <<>>
    ELSE IF ParseLine(Head(lines)) = "rec"
         THEN <<Head(lines)[1].n>> \o Messages(Tail(lines))
         ELSE Messages(Tail(lines))

PollRaises(lines) == \E i \in 1..Len(lines) : ParseLine(lines[i]) = "raise"

(***************************************************************************)
(* Observations kept for the properties.                                   *)
(***************************************************************************)
NoActivity == [grown |-> FALSE, allGood |-> TRUE, good |-> <<>>]

NoPoll == [done |-> FALSE, result |-> <<>>, expected |-> <<>>, allGood |-> TRUE,
           noGrowth |-> FALSE, offsetBefore |-> 0, offsetAfter |-> 0,
           read |-> FALSE, readEnd |-> 0]

RECURSIVE CountIn(_, _)
CountIn(s, x) ==
    IF s = <<>> THEN 0
    ELSE (IF Head(s) = x THEN 1 ELSE 0) + CountIn(Tail(s), x)

\* a poll returns `result`
CompletePoll(result, didRead, newOffset, readEnd) ==
    /\ lastPoll' = [done |-> TRUE, result |-> result,
                    expected |-> sincePrev.good, allGood |-> sincePrev.allGood,
                    noGrowth |-> ~sincePrev.grown,
                    offsetBefore |-> last_size, offsetAfter |-> newOffset,
                    read |-> didRead, readEnd |-> readEnd]
    /\ returned' = [s \in Serials |->
                       returned[s] + (IF CountIn(result, s) > 0 THEN 1 ELSE 0)]
    /\ sincePrev' = NoActivity

(***************************************************************************)
(* The game appends one line to the log (creating the file if needed).     *)
(***************************************************************************)
GameAppend(kind) ==
    /\ nextSerial <= MaxLines
    /\ fileExists' = TRUE
    /\ file' = file \o LineBytes(kind, nextSerial)
    /\ nextSerial' = nextSerial + 1
    /\ sincePrev' = [grown |-> TRUE,
                     allGood |-> sincePrev.allGood /\ kind = "G",
                     good |-> IF kind = "G" THEN Append(sincePrev.good, nextSerial)
                              ELSE sincePrev.good]
    /\ UNCHANGED <<initCount, last_size, current_size, tpc, npolls, returned,
                   lastPoll, truncs>>
    /\ UNCHANGED notTail

(***************************************************************************)
(* The log is emptied behind the tailer's back (a new game session).       *)
(***************************************************************************)
GameTruncate ==
    /\ fileExists /\ Len(file) > 0
    /\ truncs < MaxTruncs
    /\ file' = <<>>
    /\ truncs' = truncs + 1
    /\ UNCHANGED <<fileExists, nextSerial, initCount, last_size, current_size,
                   tpc, npolls, returned, sincePrev, lastPoll>>
    /\ UNCHANGED notTail

(***************************************************************************)
(* poll, up to the size check (transport.py 123-127).                      *)
(***************************************************************************)
PollStat ==
    /\ tpc = "idle"
    /\ npolls < MaxPolls
    /\ npolls' = npolls + 1
    /\ IF ~fileExists \/ NoGrowth(Len(file), last_size)
       THEN /\ CompletePoll(<<>>, FALSE, last_size, last_size)
            /\ UNCHANGED <<tpc, current_size>>
       ELSE /\ tpc' = "read"
            /\ current_size' = Len(file)
            /\ UNCHANGED <<returned, sincePrev, lastPoll>>
    /\ UNCHANGED <<fileExists, file, nextSerial, initCount, last_size, truncs>>
    /\ UNCHANGED notTail

(***************************************************************************)
(* poll, from the read to the return (transport.py 128-143).               *)
(***************************************************************************)
PollRead ==
    /\ tpc = "read"
    /\ LET lines == SplitLines(ReadNew(file, last_size), <<>>) IN
        /\ last_size' = current_size
        /\ IF PollRaises(lines)
           THEN /\ tpc' = "raised"
                /\ UNCHANGED <<returned, sincePrev, lastPoll>>
           ELSE /\ tpc' = "idle"
                /\ CompletePoll(Messages(lines), TRUE, current_size, Len(file))
    /\ UNCHANGED <<fileExists, file, nextSerial, initCount, current_size, npolls,
                   truncs>>
    /\ UNCHANGED notTail

(***************************************************************************)
(* Protocol Transport and Concurrency Guard (bridge/rcon.py).              *)
(*                                                                         *)
(* Threads call ThreadSafeRCON.execute.  Positions of a thread:            *)
(*   "out"      not in execute                                             *)
(*   "wait"     in ThreadSafeRCON.execute, at "with self._lock"            *)
(*   "send1"    RCONClient.execute, before the first _send_packet          *)
(*   "recv1"    before the first _recv_packet                              *)
(*   "connect"  in the except clause, before self._connect()               *)
(*   "send2"    before the second _send_packet                             *)
(*   "recv2"    before the second _recv_packet                             *)
(* A socket operation ends "ok", with a connection-level error "conn"      *)
(* (ConnectionError, socket.timeout, OSError), or, for body.encode of a    *)
(* command that is not encodable, with an error that is none of these.     *)
(* A read can also end "timeout": socket.timeout after 30 s (rcon.py 23),  *)
(* which leaves the socket connected and the response still to come.  The  *)
(* game answers the command frames of a connection in the order it got     *)
(* them, one response frame each.                                          *)
(***************************************************************************)
Threads == {"w1", "w2"}

Inside == {"send1", "recv1", "connect", "send2", "recv2"}

NoCall == [id |-> 0, encodable |-> TRUE, sends |-> 0, reconnects |-> 0,
           connErr |-> FALSE, result |-> "none", reply |-> 0]

\* "with self._lock": the lock can be taken when no thread holds it
LockFreeUnguarded(holder) == TRUE

LockFree(holder) == holder = "none"

\* RCONClient.execute: where a connection-level error raised at `stage` goes:
\* inside the try it is caught and the except clause runs; inside the except
\* clause it leaves execute.
OnConnErrorLoop(stage) == "connect"

OnConnError(stage) == IF stage \in {"send1", "recv1"} THEN "connect" ELSE "raise"

\* a "with" block that would release the lock only on a normal return
LeaveKeepingLockOnRaise(t, c, result) ==
    /\ call' = [call EXCEPT ![t] = [c EXCEPT !.result = result]]
    /\ rpc' = [rpc EXCEPT ![t] = "out"]
    /\ lock' = IF result = "ok" THEN "none" ELSE lock

\* leave RCONClient.execute and the "with" block around it
Leave(t, c, result) ==
    /\ call' = [call EXCEPT ![t] = [c EXCEPT !.result = result]]
    /\ rpc' = [rpc EXCEPT ![t] = "out"]
    /\ lock' = "none"

\* a connection-level error at the position the thread is in
ConnError(t, c) ==
    IF OnConnError(rpc[t]) = "connect"
    THEN /\ call' = [call EXCEPT ![t] = [c EXCEPT !.connErr = TRUE]]
         /\ rpc' = [rpc EXCEPT ![t] = "connect"]
         /\ UNCHANGED lock
    ELSE Leave(t, c, "raised_conn")

(***************************************************************************)
(* ThreadSafeRCON.execute is entered (rcon.py 89).                         *)
(***************************************************************************)
Call(t, encodable) ==
    /\ rpc[t] = "out"
    /\ ncalls < MaxCalls
    /\ ncalls' = ncalls + 1
    /\ call' = [call EXCEPT ![t] = [NoCall EXCEPT !.id = ncalls + 1,
                                                 !.encodable = encodable]]
    /\ rpc' = [rpc EXCEPT ![t] = "wait"]
    /\ UNCHANGED <<lock, request_id, conn, sockUp, auth, pending, closed,
                   frames>>
    /\ UNCHANGED notRcon

(***************************************************************************)
(* "with self._lock:" (rcon.py 90).                                        *)
(***************************************************************************)
Acquire(t) ==
    /\ rpc[t] = "wait"
    /\ LockFree(lock)
    /\ lock' = t
    /\ rpc' = [rpc EXCEPT ![t] = "send1"]
    /\ UNCHANGED <<call, ncalls, request_id, conn, sockUp, auth, pending,
                   closed, frames>>
    /\ UNCHANGED notRcon

(***************************************************************************)
(* _send_packet(SERVERDATA_EXECCOMMAND, command) (rcon.py 31-37, 66, 72):  *)
(* the id is taken first, then the body is encoded, then sendall.          *)
(***************************************************************************)
Send(t, outcome) ==
    /\ rpc[t] \in {"send1", "send2"}
    /\ request_id' = request_id + 1
    /\ LET c == [call[t] EXCEPT !.sends = @ + 1] IN
         IF ~c.encodable
         THEN Leave(t, c, "raised_other") /\ UNCHANGED <<pending, frames>>
         ELSE IF outcome = "ok" /\ sockUp
              THEN /\ call' = [call EXCEPT ![t] = c]
                   /\ rpc' = [rpc EXCEPT ![t] =
                                 IF rpc[t] = "send1" THEN "recv1" ELSE "recv2"]
                   /\ pending' = Append(pending, c.id)
                   /\ frames' = frames + 1
                   /\ UNCHANGED lock
              ELSE ConnError(t, c) /\ UNCHANGED <<pending, frames>>
    /\ UNCHANGED <<ncalls, conn, sockUp, auth, closed>>
    /\ UNCHANGED notRcon

(***************************************************************************)
(* _recv_packet() and "return body" (rcon.py 39-55, 67-68, 73-74): the     *)
(* frame read is the oldest one the game still owes on this socket, and    *)
(* its body is returned whatever its request id is.  On "conn" the socket  *)
(* is lost and with it the responses not read; on "timeout" it is not.     *)
(***************************************************************************)
Recv(t, outcome) ==
    /\ rpc[t] \in {"recv1", "recv2"}
    /\ IF outcome = "ok" /\ sockUp /\ pending # <<>>
       THEN /\ Leave(t, [call[t] EXCEPT !.reply = Head(pending)], "ok")
            /\ pending' = Tail(pending)
            /\ UNCHANGED sockUp
       ELSE /\ ConnError(t, call[t])
            /\ IF outcome = "timeout" /\ sockUp
               THEN UNCHANGED <<pending, sockUp>>
               ELSE pending' = <<>> /\ sockUp' = FALSE
    /\ UNCHANGED <<ncalls, request_id, conn, auth, closed, frames>>
    /\ UNCHANGED notRcon

(***************************************************************************)
(* self._connect() in the except clause (rcon.py 21-25, 57-62, 71): a new  *)
(* socket, connect, then one authentication round.  Outcomes:              *)
(*   "ok"        connected and authenticated                               *)
(*   "refused"   socket.connect raises                                     *)
(*   "autherr"   the auth packet or its response fails                     *)
(*   "rejected"  the response carries id -1: ConnectionError               *)
(* self.sock is the new socket from the first line of _connect on, however *)
(* the rest of _connect ends; the socket it replaces is not closed.        *)
(***************************************************************************)
Reconnect(t, outcome) ==
    /\ rpc[t] = "connect"
    /\ conn' = conn + 1
    /\ sockUp' = (outcome # "refused")
    /\ auth' = outcome
    /\ pending' = <<>>
    /\ request_id' = IF outcome = "refused" THEN request_id ELSE request_id + 1
    /\ frames' = IF outcome = "refused" THEN 0 ELSE 1
    /\ LET c == [call[t] EXCEPT !.reconnects = @ + 1] IN
         IF outcome = "ok"
         THEN /\ call' = [call EXCEPT ![t] = c]
              /\ rpc' = [rpc EXCEPT ![t] = "send2"]
              /\ UNCHANGED lock
         ELSE Leave(t, c, "raised_conn")
    /\ UNCHANGED <<ncalls, closed>>
    /\ UNCHANGED notRcon

(***************************************************************************)
(* Shutdown: the router thread leaves its loop and calls rcon.close()      *)
(* (pipe.py 580-584), that is ThreadSafeRCON.close (rcon.py 93-94), which  *)
(* calls RCONClient.close (rcon.py 76-78): self.sock.close().  The worker  *)
(* threads are daemon threads and run until the interpreter exits.         *)
(***************************************************************************)
\* ThreadSafeRCON.close does not take self._lock
Close ==
    /\ ~closed
    /\ closed' = TRUE
    /\ sockUp' = FALSE
    /\ pending' = <<>>
    /\ UNCHANGED <<lock, rpc, call, ncalls, request_id, conn, auth, frames>>
    /\ UNCHANGED notRcon

\* the transport as main_multi leaves it: connected, authenticated (one
\* packet sent), wrapped in the guard, no call in progress
RconInit ==
    /\ lock = "none"
    /\ rpc = [t \in Threads |-> "out"]
    /\ call = [t \in Threads |-> NoCall]
    /\ ncalls = 0
    /\ request_id = 1
    /\ conn = 1
    /\ sockUp = TRUE
    /\ auth = "ok"
    /\ pending = <<>>
    /\ closed = FALSE
    /\ frames = 1

RconQuiet ==
    /\ lock = "none"
    /\ rpc = [t \in Threads |-> "out"]
    /\ call = [t \in Threads |-> NoCall]
    /\ ncalls = 0 /\ request_id = 1 /\ conn = 1 /\ sockUp = TRUE
    /\ auth = "ok" /\ pending = <<>> /\ closed = FALSE /\ frames = 1

TailQuiet ==
    /\ fileExists = FALSE /\ file = <<>> /\ nextSerial = 1 /\ initCount = 0
    /\ last_size = 0 /\ current_size = 0 /\ tpc = "idle" /\ npolls = 0
    /\ returned = [s \in Serials |-> 0]
    /\ sincePrev = NoActivity /\ lastPoll = NoPoll /\ truncs = 0

RconNext ==
    \/ \E t \in Threads, e \in BOOLEAN : Call(t, e)
    \/ \E t \in Threads : Acquire(t)
    \/ \E t \in Threads, o \in {"ok", "conn"} : Send(t, o)
    \/ \E t \in Threads, o \in {"ok", "conn", "timeout"} : Recv(t, o)
    \/ \E t \in Threads, o \in {"ok", "refused", "autherr", "rejected"} :
          Reconnect(t, o)
    \/ Close

(***************************************************************************)
(* Agent Workers and Router (bridge/pipe.py).                              *)
(*                                                                         *)
(* A call of the worker into the transport (set_status, send_tool_status,  *)
(* send_response, each one rcon.execute through the guard) either returns  *)
(* or raises.  A continuation token is the pair of the agent and the       *)
(* message whose turn produced it (0: present at start-up).                *)
(***************************************************************************)
Agents == {"a1", "default"}

\* what a message of input.jsonl carries as target_agent: the name of a
\* configured agent, "all", a name that is no agent's ("ghost"), or nothing
\* ("missing": the key is absent)
Targets == Agents \cup {"all", "ghost", "missing"}

\* msg.get("target_agent", "default")
Destination(target) == IF target = "missing" THEN "default" ELSE target

\* the agents a message for `dest` is enqueued to (pipe.py 572-579)
RecipientsUnknownToAll(dest) == IF dest \in Agents THEN {dest} ELSE Agents

Recipients(dest) ==
    IF dest = "all" THEN Agents
    ELSE IF dest \in Agents THEN {dest}
    ELSE {}

\* the message as it is enqueued: the broadcast copies carry response_to
Enqueued(id, dest) ==
    [id |-> id, response_to |-> IF dest = "all" THEN "all" ELSE ""]

None == [a |-> "none", k |-> 0]

Token(a, k) == [a |-> a, k |-> k]

NoTurn == [msg |-> 0, response_to |-> "", has_text |-> FALSE,
           new_session_id |-> None]

\* the records of the stream-json output, by what handle_message does with
\* them (pipe.py 304-363)
RecordKinds == {"text", "tool_use", "tool_result", "result", "result_text",
                "result_nokey", "result_null", "junk", "nondict"}

\* subprocess.Popen: started, FileNotFoundError, another OSError
LaunchOutcomes == {"ok", "notfound", "oserror"}

\* proc.returncode and proc.stderr.read()
ExitKinds == {"zero", "nonzero_stderr", "nonzero_silent"}

\* AgentThread._run: "msg = self.inbox.get()" returns when the thread is at the
\* top of its loop and the inbox holds a message
CanDequeueThreadPerMessage(a) == wstate[a] # "Dead" /\ inbox[a] # <<>>

CanDequeueOneAtATime(a) ==
    /\ \A b \in Agents : wstate[b] # "Invoking"
    /\ wstate[a] = "Idle" /\ inbox[a] # <<>>

CanDequeue(a) == wstate[a] = "Idle" /\ inbox[a] # <<>>

\* the number of messages the workers in S have taken from their inboxes
RECURSIVE Taken(_)
Taken(S) ==
    IF S = {} THEN 0
    ELSE LET a == CHOOSE x \in S : TRUE
         IN (Len(enqueued[a]) - Len(inbox[a])) + Taken(S \ {a})

\* the inbox is a queue.Queue: get() takes the oldest message
NextMessage(q) == Head(q)

Rest(q) == Tail(q)

\* send_response(...) returned: the reply is relayed
Relay(a, m, kind) ==
    replies' = [replies EXCEPT ![a] = Append(@, m)]

\* rcon_target = response_to or agent_name (pipe.py 280, 486)
Channel(a, response_to) == IF response_to # "" THEN response_to ELSE a

\* the reply is prefixed with the agent's display name (tname) only where
\* handle_message builds the normal reply (pipe.py 378-387); the three error
\* strings are sent as they are (pipe.py 297, 373, 487-488)
Tagged(kind, response_to) ==
    response_to # "" /\ kind \in {"reply", "placeholder"}

\* len(proc.stderr.read()): a process that writes to stderr writes more than
\* the 200 characters the error string keeps
StderrCut == 200
ErrorPrefixLen == 7
LongStderr == 250

StderrLen(exit) == IF exit = "nonzero_stderr" THEN LongStderr ELSE 0

\* len(f"Error: {stderr[:200]}")
Slice(n) == IF n > StderrCut THEN StderrCut ELSE n

ErrorLen(exit) == ErrorPrefixLen + Slice(StderrLen(exit))

\* no reply was relayed by the step just taken
NoReply == [agent |-> "none", msg |-> 0, kind |-> "none", channel |-> "",
            tagged |-> FALSE, errlen |-> 0, exit |-> "none", fault |-> "none"]

\* the reply of kind `kind` for message m was relayed by agent a, in a turn
\* whose process ended with `exit` ("none": no process was started); `fault`
\* is the later call of the turn that raised
Reply(a, m, response_to, kind, exit, fault) ==
    [agent |-> a, msg |-> m, kind |-> kind,
     channel |-> Channel(a, response_to),
     tagged |-> Tagged(kind, response_to),
     errlen |-> IF kind = "error" THEN ErrorLen(exit) ELSE 0,
     exit |-> exit, fault |-> fault]

\* an exception leaves _run: the thread ends
Die(a, cause) ==
    /\ wstate' = [wstate EXCEPT ![a] = "Dead"]
    /\ death' = [death EXCEPT ![a] = cause]

\* _run after handle_message returned new_session (pipe.py 497-499);
\* save_session's write_text either succeeds or raises OSError, from the open
\* (the file is as it was) or from the write (the file was emptied by the
\* open and load_session no longer finds a token in it)
AfterReturn(a, new_session, saveFails) ==
    IF new_session = None
    THEN /\ wstate' = [wstate EXCEPT ![a] = "Idle"]
         /\ UNCHANGED <<session_id, sessionFile, death>>
    ELSE /\ session_id' = [session_id EXCEPT ![a] = new_session]
         /\ IF saveFails
            THEN /\ Die(a, "save")
                 /\ sessionFile' \in {sessionFile,
                                      [sessionFile EXCEPT ![a] = None]}
            ELSE /\ sessionFile' = [sessionFile EXCEPT ![a] = new_session]
                 /\ wstate' = [wstate EXCEPT ![a] = "Idle"]
                 /\ UNCHANGED death

\* handle_message when Popen raised FileNotFoundError: "return session_id"
\* (pipe.py 295-298)
ReturnOnLaunchFailureFresh(a, m, session) == Token(a, m)

ReturnOnLaunchFailure(a, m, session) == session

(***************************************************************************)
(* Router: one message read from the watcher is routed (pipe.py 570-579).  *)
(***************************************************************************)
Route(target) ==
    /\ nmsgs < MaxMsgs
    /\ nmsgs' = nmsgs + 1
    /\ routed' = target
    /\ LET id == nmsgs + 1
           to == Recipients(Destination(target))
           m  == Enqueued(id, Destination(target))
       IN /\ inbox' = [a \in Agents |->
                          IF a \in to THEN Append(inbox[a], m) ELSE inbox[a]]
          /\ enqueued' = [a \in Agents |->
                          IF a \in to THEN Append(enqueued[a], id) ELSE enqueued[a]]
    /\ relayed' = NoReply
    /\ UNCHANGED <<mcp_config, wstate, death, turn, session_id, sessionFile,
                   inflight, replies>>
    /\ UNCHANGED notWork

(***************************************************************************)
(* AgentThread._run from inbox.get() to the launch of the external process *)
(* (pipe.py 469-499, 279-300).  statusOk: the "Thinking..." set_status,    *)
(* whose failure is caught.  fails: "none", or the call that raises:       *)
(* "resp" (send_response) or "save" (save_session).                        *)
(***************************************************************************)
DequeueTurn(a, statusOk, launch, fails) ==
    /\ CanDequeue(a)
    /\ Taken(Agents) < MaxTurns
    /\ inbox' = [inbox EXCEPT ![a] = Rest(@)]
    /\ LET m == NextMessage(inbox[a]) IN
       IF ~mcp_config
       THEN \* "Error: factorioctl MCP not found"; continue
            /\ IF fails = "resp"
               THEN Die(a, "transport") /\ UNCHANGED replies /\ relayed' = NoReply
               ELSE /\ Relay(a, m.id, "nomcp")
                    /\ relayed' = Reply(a, m.id, m.response_to, "nomcp", "none",
                                        "none")
                    /\ UNCHANGED <<wstate, death>>
            /\ UNCHANGED <<turn, session_id, sessionFile, inflight>>
       ELSE CASE launch = "notfound" ->
                 \* except FileNotFoundError: relay, return session_id
                 /\ IF fails = "resp"
                    THEN /\ Die(a, "transport")
                         /\ relayed' = NoReply
                         /\ UNCHANGED <<replies, session_id, sessionFile>>
                    ELSE /\ Relay(a, m.id, "nocli")
                         /\ relayed' = Reply(a, m.id, m.response_to, "nocli",
                                             "none", fails)
                         /\ AfterReturn(a,
                                ReturnOnLaunchFailure(a, m.id, session_id[a]),
                                fails = "save")
                 /\ UNCHANGED <<turn, inflight>>
              [] launch = "oserror" ->
                 \* Popen raises an OSError that is not FileNotFoundError
                 /\ Die(a, "launch")
                 /\ relayed' = NoReply
                 /\ UNCHANGED <<turn, session_id, sessionFile, inflight,
                                replies>>
              [] OTHER ->
                 /\ wstate' = [wstate EXCEPT ![a] = "Invoking"]
                 /\ turn' = [turn EXCEPT ![a] =
                               [NoTurn EXCEPT !.msg = m.id,
                                              !.response_to = m.response_to,
                                              !.new_session_id = session_id[a]]]
                 /\ inflight' = [inflight EXCEPT ![a] = @ + 1]
                 /\ relayed' = NoReply
                 /\ UNCHANGED <<death, session_id, sessionFile, replies>>
    /\ routed' = "none"
    /\ UNCHANGED <<mcp_config, nmsgs, enqueued>>

Dequeue(a, statusOk, launch, fails) ==
    DequeueTurn(a, statusOk, launch, fails) /\ UNCHANGED notWork

(***************************************************************************)
(* handle_message reads one line of the process's output (pipe.py 304-363).*)
(***************************************************************************)
StreamLine(a, rec) ==
    /\ wstate[a] = "Invoking"
    /\ LET t == turn[a] IN
       CASE rec = "text" ->
              /\ turn' = [turn EXCEPT ![a] = [t EXCEPT !.has_text = TRUE]]
              /\ UNCHANGED <<wstate, death>>
         [] rec = "result" ->
              /\ turn' = [turn EXCEPT ![a] =
                            [t EXCEPT !.new_session_id = Token(a, t.msg)]]
              /\ UNCHANGED <<wstate, death>>
         [] rec = "result_text" ->
              /\ turn' = [turn EXCEPT ![a] =
                            [t EXCEPT !.new_session_id = Token(a, t.msg),
                                      !.has_text = TRUE]]
              /\ UNCHANGED <<wstate, death>>
         [] rec = "result_null" ->
              /\ turn' = [turn EXCEPT ![a] = [t EXCEPT !.new_session_id = None]]
              /\ UNCHANGED <<wstate, death>>
         [] rec = "nondict" ->
              \* msg.get on a list, number or string: AttributeError
              /\ Die(a, "stream")
              /\ turn' = [turn EXCEPT ![a] = NoTurn]
         [] OTHER ->
              \* tool_use (status best-effort), tool_result, result without
              \* session_id, blank or unparsable line
              /\ UNCHANGED <<turn, wstate, death>>
    /\ relayed' = NoReply
    /\ routed' = "none"
    /\ UNCHANGED <<mcp_config, inbox, session_id, sessionFile, inflight, nmsgs,
                   enqueued, replies>>

Stream(a, rec) == StreamLine(a, rec) /\ UNCHANGED notWork

\* pipe.py 367-369: the error path is taken on a non-zero exit with stderr
\* output and no text
ErrorPathDespiteText(exit, has_text) == exit = "nonzero_stderr"

ErrorPath(exit, has_text) ==
    exit = "nonzero_stderr" /\ ~has_text

\* pipe.py 367-378: which reply the turn relays
ReplyKindErrorOnAnyFailure(exit, has_text) ==
    IF exit # "zero" /\ ~has_text THEN "error"
    ELSE IF has_text THEN "reply" ELSE "placeholder"

ReplyKind(exit, has_text) ==
    IF ErrorPath(exit, has_text) THEN "error"
    ELSE IF has_text THEN "reply" ELSE "placeholder"

(***************************************************************************)
(* End of the stream: proc.wait(), the reply, the return to _run and the   *)
(* save of the session (pipe.py 365-389, 497-499).  fails: "none", or the  *)
(* call that raises: "resp" (send_response), "ready" (the set_status of    *)
(* the error path) or "save" (save_session).                               *)
(***************************************************************************)
Finish(a, exit, fails) ==
    /\ wstate[a] = "Invoking"
    /\ inflight' = [inflight EXCEPT ![a] = @ - 1]
    /\ turn' = [turn EXCEPT ![a] = NoTurn]
    /\ LET t == turn[a]
           kind == ReplyKind(exit, t.has_text)
       IN IF fails = "resp"
          THEN /\ Die(a, "transport")
               /\ relayed' = NoReply
               /\ UNCHANGED <<replies, session_id, sessionFile>>
          ELSE /\ Relay(a, t.msg, kind)
               /\ relayed' = Reply(a, t.msg, t.response_to, kind, exit, fails)
               /\ IF kind = "error" /\ fails = "ready"
                  THEN Die(a, "transport") /\ UNCHANGED <<session_id, sessionFile>>
                  ELSE AfterReturn(a, t.new_session_id, fails = "save")
    /\ routed' = "none"
    /\ UNCHANGED <<mcp_config, inbox, nmsgs, enqueued>>
    /\ UNCHANGED notWork

\* main_multi after the agent threads were built: each AgentThread loaded its
\* session (absent file: None), inboxes empty, threads blocked on inbox.get()
WorkInit ==
    /\ mcp_config \in BOOLEAN
    /\ sessionFile \in {[a \in Agents |-> None], [a \in Agents |-> Token(a, 0)]}
    /\ session_id = sessionFile
    /\ inbox = [a \in Agents |-> <<>>]
    /\ wstate = [a \in Agents |-> "Idle"]
    /\ death = [a \in Agents |-> "none"]
    /\ turn = [a \in Agents |-> NoTurn]
    /\ inflight = [a \in Agents |-> 0]
    /\ nmsgs = 0
    /\ enqueued = [a \in Agents |-> <<>>]
    /\ replies = [a \in Agents |-> <<>>]
    /\ routed = "none"
    /\ relayed = NoReply

WorkQuiet ==
    /\ mcp_config = TRUE
    /\ sessionFile = [a \in Agents |-> None]
    /\ session_id = [a \in Agents |-> None]
    /\ inbox = [a \in Agents |-> <<>>]
    /\ wstate = [a \in Agents |-> "Idle"]
    /\ death = [a \in Agents |-> "none"]
    /\ turn = [a \in Agents |-> NoTurn]
    /\ inflight = [a \in Agents |-> 0]
    /\ nmsgs = 0
    /\ enqueued = [a \in Agents |-> <<>>]
    /\ replies = [a \in Agents |-> <<>>]
    /\ routed = "none"
    /\ relayed = NoReply

\* the calls that can raise on the way from inbox.get() to the launch, and
\* from the end of the stream to the top of the loop
DequeueFailures(a, launch) ==
    {"none"}
    \cup (IF ~mcp_config \/ launch = "notfound" THEN {"resp"} ELSE {})
    \cup (IF mcp_config /\ launch = "notfound" /\ session_id[a] # None
          THEN {"save"} ELSE {})

FinishFailures(a, exit) ==
    {"none", "resp"}
    \cup (IF ReplyKind(exit, turn[a].has_text) = "error" THEN {"ready"} ELSE {})
    \cup (IF turn[a].new_session_id # None THEN {"save"} ELSE {})

DequeueStep(a) ==
    \E statusOk \in BOOLEAN, launch \in LaunchOutcomes :
        \E fails \in DequeueFailures(a, launch) : Dequeue(a, statusOk, launch, fails)

FinishStep(a) ==
    \E exit \in ExitKinds :
        \E fails \in FinishFailures(a, exit) : Finish(a, exit, fails)

WorkNext ==
    \/ \E target \in Targets : Route(target)
    \/ \E a \in Agents : DequeueStep(a)
    \/ \E a \in Agents, rec \in RecordKinds : Stream(a, rec)
    \/ \E a \in Agents : FinishStep(a)

(***************************************************************************)
(* An external process that never terminates.  Nothing bounds the time     *)
(* handle_message waits for the process: "for line in proc.stdout" (pipe.py*)
(* 304) and proc.wait() (pipe.py 365) have no timeout.  The process of one *)
(* agent stops producing output without ending: no further line is read    *)
(* and the stream never ends for that worker.                              *)
(***************************************************************************)
Hang(a) ==
    /\ hung = {}
    /\ wstate[a] = "Invoking"
    /\ hung' = {a}
    /\ relayed' = NoReply
    /\ routed' = "none"
    /\ UNCHANGED <<mcp_config, inbox, wstate, death, turn, session_id,
                   sessionFile, inflight, nmsgs, enqueued, replies>>
    /\ UNCHANGED notWorkOrHang

HangQuiet == hung = {}

\* the worker of agent a takes steps while its process runs
Running(a) == a \notin hung

\* The hang is the one fault: the transport and the session file do not
\* fail, the command is started or not found, and the processes that run
\* write well-formed records.
Take(a) ==
    /\ Running(a)
    /\ \E launch \in {"ok", "notfound"} : Dequeue(a, TRUE, launch, "none")

Read(a) ==
    /\ Running(a)
    /\ \E rec \in {"text", "result"} : Stream(a, rec)

End(a) ==
    /\ Running(a)
    /\ \E exit \in ExitKinds : Finish(a, exit, "none")

HangNext ==
    \/ \E a \in Agents : Hang(a)
    \/ \E target \in Targets : Route(target)
    \/ \E a \in Agents : Take(a)
    \/ \E a \in Agents : Read(a)
    \/ \E a \in Agents : End(a)

(***************************************************************************)
(* Status notifications that fail.  The "Thinking..." set_status of _run   *)
(* (pipe.py 480-483) and the send_tool_status of a tool_use block (pipe.py *)
(* 333-336) are each inside "try: ... except Exception: pass".  The        *)
(* notification is the one call that fails here: the reply and the session *)
(* file are written, and the command is started or not found.              *)
(***************************************************************************)
\* a guard that would let the exception through
PassesOnlyUnraised(raised) == ~raised

\* "try: <call> except Exception: pass": the statement after it is reached
\* whether the call raised or not
Passes(raised) == TRUE

\* an exception of the worker before the launch leaves _run
Escapes(a) ==
    /\ CanDequeue(a)
    /\ Taken(Agents) < MaxTurns
    /\ inbox' = [inbox EXCEPT ![a] = Rest(@)]
    /\ Die(a, "status")
    /\ relayed' = NoReply
    /\ routed' = "none"
    /\ UNCHANGED <<mcp_config, turn, session_id, sessionFile, inflight, nmsgs,
                   enqueued, replies>>

\* an exception of the worker while it reads the stream leaves _run
EscapesStream(a) ==
    /\ wstate[a] = "Invoking"
    /\ Die(a, "status")
    /\ turn' = [turn EXCEPT ![a] = NoTurn]
    /\ relayed' = NoReply
    /\ routed' = "none"
    /\ UNCHANGED <<mcp_config, inbox, session_id, sessionFile, inflight, nmsgs,
                   enqueued, replies>>

\* _run takes a message; statusOk: the "Thinking..." set_status returned
Think(a, statusOk) ==
    /\ status_lost' = [status_lost EXCEPT
                         ![a] = IF statusOk THEN {} ELSE {"thinking"}]
    /\ IF Passes(~statusOk)
       THEN \E launch \in {"ok", "notfound"} :
                DequeueTurn(a, statusOk, launch, "none")
       ELSE Escapes(a)
    /\ UNCHANGED notWorkOrNote

\* handle_message reads a line; toolOk: the send_tool_status of a tool_use
\* block returned
ReadLine(a, rec, toolOk) ==
    /\ status_lost' = [status_lost EXCEPT
                         ![a] = IF rec = "tool_use" /\ ~toolOk
                                THEN @ \cup {"tool"} ELSE @]
    /\ IF Passes(rec = "tool_use" /\ ~toolOk)
       THEN StreamLine(a, rec)
       ELSE EscapesStream(a)
    /\ UNCHANGED notWorkOrNote

\* the stream ends and the reply is relayed
Conclude(a) == \E exit \in ExitKinds : Finish(a, exit, "none")

NoteInit == status_lost = [a \in Agents |-> {}]

NoteQuiet == status_lost = [a \in Agents |-> {}]

NoteNext ==
    \/ \E target \in Targets : Route(target)
    \/ \E a \in Agents, statusOk \in BOOLEAN : Think(a, statusOk)
    \/ \E a \in Agents, rec \in {"text", "tool_use"}, toolOk \in BOOLEAN :
          ReadLine(a, rec, toolOk)
    \/ \E a \in Agents : Conclude(a)

(***************************************************************************)
(* Session Store (bridge/pipe.py 170-197).                                 *)
(*                                                                         *)
(* A file is a sequence of pieces of text.  save_session writes            *)
(*     json.dumps({"session_id": session_id}) + "\n"                       *)
(* which is the five pieces  {  "session_id":  "<token>"  }  newline.      *)
(* Files that save_session did not write may hold other pieces:            *)
(*   "value"  a complete JSON text that is not an object ([], null, 5)     *)
(*   "bytes"  bytes that are not text in the encoding read_text uses       *)
(***************************************************************************)
Piece(c, k, v) == [c |-> c, k |-> k, v |-> v]

Punct(c) == Piece(c, "", None)

\* json.dumps({key: token}) + "\n"
Encode(key, token) ==
    <<Punct("{"), Piece("key", key, None), Piece("str", "", token), Punct("}"),
      Punct("nl")>>

\* the text save_session writes for a token (pipe.py 197)
SavedTextOtherKey(token) == Encode("continuation_token", token)

SavedText(token) == Encode("session_id", token)

Absent == [exists |-> FALSE, text |-> <<>>]

Holding(content) == [exists |-> TRUE, text |-> content]

\* json.loads skips the white space around the JSON text
RECURSIVE StripNl(_)
StripNl(content) ==
    IF content # <<>> /\ content[Len(content)] = Punct("nl")
    THEN StripNl(SubSeq(content, 1, Len(content) - 1))
    ELSE content

(***************************************************************************)
(* json.loads(f.read_text()), by what load_session does with the outcome:  *)
(*   "object"     a JSON object; k and v are its one key and that key's    *)
(*                value (k = "": the object is empty)                      *)
(*   "other"      a JSON value that is not an object                       *)
(*   "undecoded"  read_text raised UnicodeDecodeError                      *)
(*   "error"      json.loads raised JSONDecodeError                        *)
(***************************************************************************)
json_loads(content) ==
    LET s == StripNl(content) IN
    IF \E i \in 1..Len(content) : content[i].c = "bytes"
    THEN [kind |-> "undecoded", k |-> "", v |-> None]
    ELSE IF Len(s) = 4 /\ s[1] = Punct("{") /\ s[2].c = "key"
               /\ s[3].c = "str" /\ s[4] = Punct("}")
    THEN [kind |-> "object", k |-> s[2].k, v |-> s[3].v]
    ELSE IF s = <<Punct("{"), Punct("}")>>
    THEN [kind |-> "object", k |-> "", v |-> None]
    ELSE IF s = <<Punct("value")>>
    THEN [kind |-> "other", k |-> "", v |-> None]
    ELSE [kind |-> "error", k |-> "", v |-> None]

\* "try: data = json.loads(f.read_text()); return data.get(key)
\*  except (json.JSONDecodeError, OSError): return None"
\* data.get on a value that is not a dict raises AttributeError, and neither
\* that nor UnicodeDecodeError is named by the except clause
ReadKey(f, key) ==
    LET data == json_loads(f.text) IN
    CASE data.kind = "error" -> [raised |-> FALSE, value |-> None]
      [] data.kind = "object" ->
            [raised |-> FALSE, value |-> IF data.k = key THEN data.v ELSE None]
      [] OTHER -> [raised |-> TRUE, value |-> None]

\* _session_file(agent_name): the file .session-<agent_name>.json, named here
\* by the agent it belongs to (pipe.py 170-171)
SessionFileShared(agent_name) == "default"

SessionFile(agent_name) == agent_name

\* load_session(agent_name) (pipe.py 174-191)
load_session(a) ==
    IF disk[SessionFile(a)].exists
    THEN ReadKey(disk[SessionFile(a)], "session_id")
    ELSE IF shared.exists THEN ReadKey(shared, a)
    ELSE [raised |-> FALSE, value |-> None]

NoSave == [agent |-> "none", token |-> None]

NoLoad == [agent |-> "none", raised |-> FALSE, value |-> None]

TokenIds == 1..2

(***************************************************************************)
(* save_session(a, token), up to the open inside write_text: the file is   *)
(* created or emptied (pipe.py 194-197).                                   *)
(***************************************************************************)
SaveOpen(a, token) ==
    /\ spc \in {"idle", "down"}
    /\ nsaves[a] < MaxSaves
    /\ nsaves' = [nsaves EXCEPT ![a] = @ + 1]
    /\ saving' = [agent |-> a, token |-> token]
    /\ before' = load_session(a)
    /\ disk' = [disk EXCEPT ![SessionFile(a)] = Holding(<<>>)]
    /\ lastSaved' = [lastSaved EXCEPT ![a] = None]
    /\ spc' = "opened"
    /\ loaded' = NoLoad
    /\ UNCHANGED shared
    /\ UNCHANGED notStore

(***************************************************************************)
(* write_text writes the text and closes the file; save_session returns.   *)
(***************************************************************************)
SaveWrite ==
    /\ spc = "opened"
    /\ disk' = [disk EXCEPT ![SessionFile(saving.agent)] =
                   Holding(SavedText(saving.token))]
    /\ lastSaved' = [lastSaved EXCEPT ![saving.agent] = saving.token]
    /\ spc' = "idle"
    /\ loaded' = NoLoad
    /\ UNCHANGED <<shared, saving, nsaves, before>>
    /\ UNCHANGED notStore

(***************************************************************************)
(* The process dies inside write_text, after the open: the first n pieces  *)
(* of the text have reached the file.                                      *)
(***************************************************************************)
Crash(n) ==
    /\ spc = "opened"
    /\ n \in 0..Len(SavedText(saving.token))
    /\ disk' = [disk EXCEPT ![SessionFile(saving.agent)] =
                   Holding(SubSeq(SavedText(saving.token), 1, n))]
    /\ spc' = "down"
    /\ loaded' = NoLoad
    /\ UNCHANGED <<shared, saving, nsaves, lastSaved, before>>
    /\ UNCHANGED notStore

(***************************************************************************)
(* A process that has just started builds the AgentThread of agent a:      *)
(* self.session_id = load_session(self.agent_name) (pipe.py 455).          *)
(***************************************************************************)
Load(a) ==
    /\ spc \in {"idle", "down"}
    /\ loaded' = [agent |-> a, raised |-> load_session(a).raised,
                  value |-> load_session(a).value]
    /\ UNCHANGED <<disk, shared, spc, saving, nsaves, lastSaved, before>>
    /\ UNCHANGED notStore

\* what the files may hold when the bridge is started
InitialSession(a) ==
    {Absent, Holding(SavedText(Token(a, 0))), Holding(<<>>),
     Holding(<<Punct("{"), Punct("}"), Punct("nl")>>),
     Holding(<<Punct("value")>>), Holding(<<Punct("bytes")>>)}

InitialShared ==
    {Absent, Holding(Encode("a1", Token("a1", 0))), Holding(<<Punct("{")>>),
     Holding(<<Punct("value")>>)}

StoreInit ==
    /\ disk \in {d \in [Agents -> UNION {InitialSession(a) : a \in Agents}] :
                    \A a \in Agents : d[a] \in InitialSession(a)}
    /\ shared \in InitialShared
    /\ spc = "idle"
    /\ saving = NoSave
    /\ nsaves = [a \in Agents |-> 0]
    /\ lastSaved = [a \in Agents |-> None]
    /\ before = [raised |-> FALSE, value |-> None]
    /\ loaded = NoLoad

StoreQuiet ==
    /\ disk = [a \in Agents |-> Absent]
    /\ shared = Absent
    /\ spc = "idle"
    /\ saving = NoSave
    /\ nsaves = [a \in Agents |-> 0]
    /\ lastSaved = [a \in Agents |-> None]
    /\ before = [raised |-> FALSE, value |-> None]
    /\ loaded = NoLoad

StoreNext ==
    \/ \E a \in Agents, k \in TokenIds : SaveOpen(a, Token(a, k))
    \/ SaveWrite
    \/ \E n \in 0..Len(SavedText(saving.token)) : Crash(n)
    \/ \E a \in Agents : Load(a)

(***************************************************************************)
(* lua_long_string (bridge/rcon.py 97-103).  A string is a sequence of     *)
(* characters; "x" stands for any character other than the brackets and    *)
(* the equals sign.                                                        *)
(***************************************************************************)
Chars == {"]", "=", "[", "x"}

Strings == UNION {[1..n -> Chars] : n \in 0..MaxText}

\* "=" * n
RECURSIVE Eqs(_)
Eqs(n) == IF n = 0 THEN <<>> ELSE <<"=">> \o Eqs(n - 1)

\* a scan that would test for the opening delimiter instead
CloserLikeOpener(n) == <<"[">> \o Eqs(n) \o <<"[">>

\* f']{"=" * level}]' and the opening delimiter of the same level
Closer(n) == <<"]">> \o Eqs(n) \o <<"]">>

Opener(n) == <<"[">> \o Eqs(n) \o <<"[">>

\* the positions at which pat occurs in s
Occurrences(pat, s) ==
    {i \in 1..(Len(s) - Len(pat) + 1) : SubSeq(s, i, i + Len(pat) - 1) = pat}

\* "pat in s"
In(pat, s) == Occurrences(pat, s) # {}

\* f"[{eq}[{text}]{eq}]"
Wrap(s, n) == Opener(n) \o s \o Closer(n)

Min(S) == CHOOSE i \in S : \A j \in S : i <= j

\* A long-bracket string of level n is read: the content runs from just
\* after the opening delimiter to the first occurrence of the closing
\* delimiter of that level.
ReadLongString(w, n) ==
    LET body == SubSeq(w, Len(Opener(n)) + 1, Len(w))
        first == Min(Occurrences(Closer(n), body))
    IN [content |-> SubSeq(body, 1, first - 1),
        closedAt |-> Len(Opener(n)) + first]

\* one test of "while f']{"=" * level}]' in text", and either "level += 1"
\* or the lines after the loop and the return
ScanLevel ==
    /\ lpc = "scan"
    /\ IF In(Closer(level), text)
       THEN /\ level' = level + 1
            /\ UNCHANGED <<lpc, wrapped>>
       ELSE /\ wrapped' = Wrap(text, level)
            /\ lpc' = "wrapped"
            /\ UNCHANGED level
    /\ UNCHANGED <<text, unwrapped>>
    /\ UNCHANGED notLua

\* the game's Lua reads the long-bracket string that was sent to it
GameReads ==
    /\ lpc = "wrapped"
    /\ unwrapped' = ReadLongString(wrapped, level)
    /\ lpc' = "read"
    /\ UNCHANGED <<text, level, wrapped>>
    /\ UNCHANGED notLua

NotRead == [content |-> <<>>, closedAt |-> 0]

LuaInit ==
    /\ text \in Strings
    /\ level = 0
    /\ lpc = "scan"
    /\ wrapped = <<>>
    /\ unwrapped = NotRead

LuaQuiet ==
    /\ text = <<>> /\ level = 0 /\ lpc = "scan" /\ wrapped = <<>>
    /\ unwrapped = NotRead

LuaNext == ScanLevel \/ GameReads

(***************************************************************************)
(* The frame codec (bridge/rcon.py 31-46; bridge/bridge.py 75-90 is the    *)
(* same code).  A string is a sequence of code points, a frame a sequence  *)
(* of bytes (0..255).                                                      *)
(***************************************************************************)
SERVERDATA_AUTH == 3
SERVERDATA_EXECCOMMAND == 2

\* code points the payloads are made of: NUL, "a", e-acute (2 bytes in
\* UTF-8), the euro sign (3 bytes), an emoji (4 bytes), a lone surrogate
CodePoints == {0, 97, 233, 8364, 128512, 55296}

Surrogates == 55296..57343

Replacement == 65533

Payloads == UNION {[1..n -> CodePoints] : n \in 0..MaxBody}

\* values of _request_id before the call
PrevIds == {0, 254, 255, 65535, 16777215, 2147483646}

\* the UTF-8 bytes of one code point
Utf8Of(cp) ==
    IF cp < 128 THEN <<cp>>
    ELSE IF cp < 2048 THEN <<192 + (cp \div 64), 128 + (cp % 64)>>
    ELSE IF cp < 65536
         THEN <<224 + (cp \div 4096), 128 + ((cp \div 64) % 64),
                128 + (cp % 64)>>
         ELSE <<240 + (cp \div 262144), 128 + ((cp \div 4096) % 64),
                128 + ((cp \div 64) % 64), 128 + (cp % 64)>>

\* body.encode("utf-8") raises UnicodeEncodeError on a lone surrogate
Encodable(s) == \A k \in 1..Len(s) : s[k] \notin Surrogates

RECURSIVE EncodeUtf8(_)
EncodeUtf8(s) ==
    IF s = <<>> THEN <<>> ELSE Utf8Of(Head(s)) \o EncodeUtf8(Tail(s))

\* number of bytes of the sequence a lead byte announces (0: not a lead byte)
Announced(lead) ==
    IF lead < 128 THEN 1
    ELSE IF lead \in 194..223 THEN 2
    ELSE IF lead \in 224..239 THEN 3
    ELSE IF lead \in 240..244 THEN 4
    ELSE 0

\* the values the byte after the lead byte may have
SecondOk(lead, b) ==
    IF lead = 224 THEN b \in 160..191
    ELSE IF lead = 237 THEN b \in 128..159
    ELSE IF lead = 240 THEN b \in 144..191
    ELSE IF lead = 244 THEN b \in 128..143
    ELSE b \in 128..191

\* the number of bytes at the head of bs that form the start of a
\* well-formed sequence announced by bs[1]
WellFormedPrefix(bs) ==
    LET n == Announced(bs[1])
        ok(k) == /\ k <= Len(bs)
                 /\ IF k = 2 THEN SecondOk(bs[1], bs[2]) ELSE bs[k] \in 128..191
        good == {k \in 1..n : \A j \in 2..k : ok(j)}
    IN IF n = 0 THEN 0 ELSE CHOOSE k \in good : \A j \in good : j <= k

\* the code point of a well-formed sequence of n bytes
CodePointOf(bs, n) ==
    IF n = 1 THEN bs[1]
    ELSE IF n = 2 THEN (bs[1] - 192) * 64 + (bs[2] - 128)
    ELSE IF n = 3
         THEN (bs[1] - 224) * 4096 + (bs[2] - 128) * 64 + (bs[3] - 128)
         ELSE (bs[1] - 240) * 262144 + (bs[2] - 128) * 4096
                + (bs[3] - 128) * 64 + (bs[4] - 128)

\* bytes.decode("utf-8", errors="replace"): an ill-formed sequence gives one
\* replacement character and decoding resumes after it
RECURSIVE DecodeUtf8(_)
DecodeUtf8(bs) ==
    IF bs = <<>> THEN <<>>
    ELSE LET n == Announced(bs[1])
             w == WellFormedPrefix(bs)
         IN IF n > 0 /\ w = n
            THEN <<CodePointOf(bs, n)>> \o DecodeUtf8(SubSeq(bs, n + 1, Len(bs)))
            ELSE <<Replacement>>
                   \o DecodeUtf8(SubSeq(bs, (IF w = 0 THEN 1 ELSE w) + 1, Len(bs)))

\* struct.pack("<i", v): four bytes, least significant first, two's complement
PackLe32(v) ==
    <<v % 256, (v \div 256) % 256, (v \div 65536) % 256,
      (v \div 16777216) % 256>>

\* struct.unpack("<i", b)[0]
UnpackLe32(b) ==
    b[1] + 256 * b[2] + 65536 * b[3]
      + 16777216 * (IF b[4] >= 128 THEN b[4] - 256 ELSE b[4])

\* size = 4 + 4 + len(body_bytes) + 1 + 1
SizeCountingChars(s, body_bytes) == 4 + 4 + Len(s) + 1 + 1

Size(s, body_bytes) == 4 + 4 + Len(body_bytes) + 1 + 1

\* struct.pack("<iii", size, req_id, packet_type) + body_bytes + b"\x00\x00"
Packet(s, req_id, type) ==
    LET body_bytes == EncodeUtf8(s) IN
    PackLe32(Size(s, body_bytes)) \o PackLe32(req_id) \o PackLe32(type)
      \o body_bytes \o <<0, 0>>

\* _recv_packet over the bytes bs of the stream
RecvPacket(bs) ==
    LET size == UnpackLe32(SubSeq(bs, 1, 4))
        data == SubSeq(bs, 5, 4 + size)
    IN [req_id |-> UnpackLe32(SubSeq(data, 1, 4)),
        pkt_type |-> UnpackLe32(SubSeq(data, 5, 8)),
        body |-> DecodeUtf8(SubSeq(data, 9, Len(data) - 2)),
        rest |-> SubSeq(bs, 5 + size, Len(bs))]

NotReceived == [req_id |-> 0, pkt_type |-> 0, body |-> <<>>, rest |-> <<>>]

\* _send_packet(packet_type, body) up to sendall (rcon.py 31-37)
SendPacket ==
    /\ fpc = "start"
    /\ IF Encodable(payload)
       THEN /\ packet' = Packet(payload, prev_id + 1, packet_type)
            /\ fpc' = "sent"
       ELSE /\ fpc' = "raised"
            /\ UNCHANGED packet
    /\ UNCHANGED <<payload, packet_type, prev_id, received>>
    /\ UNCHANGED notFrame

\* _recv_packet() applied to the bytes that were sent (rcon.py 39-46)
RecvSent ==
    /\ fpc = "sent"
    /\ received' = RecvPacket(packet)
    /\ fpc' = "received"
    /\ UNCHANGED <<payload, packet_type, prev_id, packet>>
    /\ UNCHANGED notFrame

FrameInit ==
    /\ payload \in Payloads
    /\ packet_type \in {SERVERDATA_AUTH, SERVERDATA_EXECCOMMAND}
    /\ prev_id \in PrevIds
    /\ packet = <<>>
    /\ fpc = "start"
    /\ received = NotReceived

FrameQuiet ==
    /\ payload = <<>> /\ packet_type = SERVERDATA_EXECCOMMAND /\ prev_id = 0
    /\ packet = <<>> /\ fpc = "start" /\ received = NotReceived

FrameNext == SendPacket \/ RecvSent

(***************************************************************************)
(* parse_response (bridge/pipe.py 110-157).  A text is a sequence of       *)
(* characters in which a whole section header [color=...]LABEL:[/color],   *)
(* as _SECTION_RE matches it, is one element: the element is its label.    *)
(* All headers carry the same colour, which is left out.  "x" stands for   *)
(* any character that is neither white space nor "-".                      *)
(***************************************************************************)
MarkerLabels == {"STATUS", "ACTIONS", "FILED", "NOTES"}

Whitespace == {" ", "\n"}

TextChars == {"x", "-"} \cup Whitespace

RawTexts == UNION {[1..n -> MarkerLabels \cup TextChars] : n \in 0..MaxRaw}

\* "[color=1,0.8,0.2]STATUS:[/color] ok\n\n[color=0.6,0.8,1]ACTIONS:[/color]
\*  \n- mined ore\n- crafted gear"
ExampleRaw ==
    <<"STATUS", " ", "o", "k", "\n", "\n", "ACTIONS", "\n",
      "-", " ", "m", "i", "n", "e", "d", " ", "o", "r", "e", "\n",
      "-", " ", "c", "r", "a", "f", "t", "e", "d", " ", "g", "e", "a", "r">>

IsMarker(tok) == tok \in MarkerLabels

\* "ACTION" in label.upper()
IsActionLabel(label) == label \in {"ACTIONS"}

\* label.upper() in ("FILED", "CLASSIFIED", "END")
IsFooterLabel(label) == label \in {"FILED", "CLASSIFIED", "END"}

\* list(_SECTION_RE.finditer(text)): the positions of the headers from
\* position i on, in order
RECURSIVE Matches(_, _)
Matches(t, i) ==
    IF i > Len(t) THEN <<>>
    ELSE (IF IsMarker(t[i]) THEN <<i>> ELSE <<>>) \o Matches(t, i + 1)

\* m.end(): the pattern ends with \s*, so the match runs over the white
\* space that follows the header; the position of the first element after it
RECURSIVE MatchEnd(_, _)
MatchEnd(t, i) ==
    IF i + 1 <= Len(t) /\ t[i + 1] \in Whitespace THEN MatchEnd(t, i + 1)
    ELSE i + 1

\* s.lstrip(chars), s.rstrip(chars) and s.strip()
RECURSIVE LStrip(_, _)
LStrip(s, chars) ==
    IF s # <<>> /\ Head(s) \in chars THEN LStrip(Tail(s), chars) ELSE s

RECURSIVE RStrip(_, _)
RStrip(s, chars) ==
    IF s # <<>> /\ s[Len(s)] \in chars
    THEN RStrip(SubSeq(s, 1, Len(s) - 1), chars)
    ELSE s

Strip(s) == RStrip(LStrip(s, Whitespace), Whitespace)

\* s.split(sep) for a separator of one character
RECURSIVE SplitOn(_, _)
SplitOn(s, sep) ==
    IF \A i \in 1..Len(s) : s[i] # sep THEN <<s>>
    ELSE LET i == CHOOSE k \in 1..Len(s) :
                     s[k] = sep /\ \A j \in 1..(k - 1) : s[j] # sep
         IN <<SubSeq(s, 1, i - 1)>> \o SplitOn(SubSeq(s, i + 1, Len(s)), sep)

\* s.split("\n\n", 1)
SplitBreak(s) ==
    LET breaks == {k \in 1..(Len(s) - 1) : s[k] = "\n" /\ s[k + 1] = "\n"} IN
    IF breaks = {} THEN <<s>>
    ELSE LET i == CHOOSE k \in breaks : \A j \in breaks : k <= j
         IN <<SubSeq(s, 1, i - 1), SubSeq(s, i + 2, Len(s))>>

\* line.strip().lstrip("- ").strip(): lstrip takes a set of characters
ActionLine(line) == Strip(LStrip(Strip(line), {"-", " "}))

\* the loop over content.split("\n") that collects the non-empty lines
RECURSIVE ActionLines(_)
ActionLines(lines) ==
    IF lines = <<>> THEN <<>>
    ELSE (IF ActionLine(Head(lines)) # <<>>
          THEN <<ActionLine(Head(lines))>> ELSE <<>>)
           \o ActionLines(Tail(lines))

NoSection == [label |-> "", text |-> <<>>]

\* the dict: the keys it has and, for each, its value
NoResult == [keys |-> {}, header |-> NoSection, body |-> <<>>,
             actions |-> <<>>, footer |-> NoSection, data |-> <<>>]

\* the body of the loop for match number i (pipe.py 127-152)
Section(res, i, label, content) ==
    IF i = 1
    THEN LET parts == SplitBreak(content)
             r == [res EXCEPT !.keys = @ \cup {"header"},
                              !.header = [label |-> label,
                                          text |-> Strip(parts[1])]]
         IN IF Len(parts) > 1 /\ Strip(parts[2]) # <<>>
            THEN [r EXCEPT !.keys = @ \cup {"body"}, !.body = Strip(parts[2])]
            ELSE r
    ELSE IF IsActionLabel(label)
    THEN LET actions == ActionLines(SplitOn(content, "\n")) IN
         IF actions # <<>>
         THEN [res EXCEPT !.keys = @ \cup {"actions"}, !.actions = actions]
         ELSE res
    ELSE IF IsFooterLabel(label)
    THEN [res EXCEPT !.keys = @ \cup {"footer"},
                     !.footer = [label |-> label, text |-> content]]
    ELSE [res EXCEPT !.keys = @ \cup {"data"},
                     !.data = SelectSeq(@, LAMBDA d : d.label # label)
                                \o <<[label |-> label, text |-> content]>>]

\* text[content_start:content_end].strip() for match number i
Content(t, ms, i) ==
    Strip(SubSeq(t, MatchEnd(t, ms[i]),
                 (IF i < Len(ms) THEN ms[i + 1] ELSE Len(t) + 1) - 1))

RECURSIVE Sections(_, _, _, _)
Sections(t, ms, i, res) ==
    IF i > Len(ms) THEN res
    ELSE Sections(t, ms, i + 1, Section(res, i, t[ms[i]], Content(t, ms, i)))

\* "if not matches: return {"body": text}"
FallbackStripped(t) == Strip(t)

Fallback(t) == t

parse_response(t) ==
    LET ms == Matches(t, 1) IN
    IF ms = <<>>
    THEN [NoResult EXCEPT !.keys = {"body"}, !.body = Fallback(t)]
    ELSE LET res == Sections(t, ms, 1, NoResult) IN
         IF "body" \notin res.keys
         THEN [res EXCEPT !.keys = @ \cup {"body"}, !.body = res.header.text]
         ELSE res

ParseResponse ==
    /\ ppc = "start"
    /\ parsed' = parse_response(raw)
    /\ ppc' = "parsed"
    /\ UNCHANGED raw
    /\ UNCHANGED notParse

ParseInit ==
    /\ raw \in RawTexts \cup {ExampleRaw}
    /\ ppc = "start"
    /\ parsed = NoResult

ParseQuiet == raw = <<>> /\ ppc = "start" /\ parsed = NoResult

ParseNext == ParseResponse

(***************************************************************************)
(* sanitize_response (bridge/pipe.py 160-165).  A text is a sequence of    *)
(* characters: "*", "#", the space, the newline, "[" and "]", "tick" for   *)
(* a backtick and "w" for a word character.  A rich-text tag is "[", its   *)
(* content and "]"; the content is a word character or, as in              *)
(* [color=#ff8800], a "#".  The texts are built from pieces.               *)
(***************************************************************************)
Pieces ==
    {<<"*", "*">>, <<"#", "#">>, <<"tick", "tick", "tick">>,
     <<" ">>, <<"\n">>, <<"w">>,
     <<"[", "#", "]">>, <<"[", "w", "]">>}

RECURSIVE Flatten(_)
Flatten(ps) == IF ps = <<>> THEN <<>> ELSE Head(ps) \o Flatten(Tail(ps))

DirtyTexts == {Flatten(ps) : ps \in UNION {[1..n -> Pieces] : n \in 0..MaxDirty}}

\* s starts with pat
StartsWith(s, pat) == Len(s) >= Len(pat) /\ SubSeq(s, 1, Len(pat)) = pat

\* the first re.sub, of a bold pair by its content: at each position, from
\* the left, two stars, then the shortest non-empty run without a newline
\* that is followed by two stars; the match is replaced by the run and the
\* scan resumes after it
RECURSIVE Unbold(_)
Unbold(s) ==
    IF s = <<>> THEN <<>>
    ELSE LET closers == {j \in 4..(Len(s) - 1) :
                            /\ s[j] = "*" /\ s[j + 1] = "*"
                            /\ \A k \in 3..(j - 1) : s[k] # "\n"}
         IN IF StartsWith(s, <<"*", "*">>) /\ closers # {}
            THEN LET j == CHOOSE c \in closers : \A d \in closers : c <= d
                 IN SubSeq(s, 3, j - 1) \o Unbold(SubSeq(s, j + 2, Len(s)))
            ELSE <<Head(s)>> \o Unbold(Tail(s))

\* the length of the run of characters of chars at the head of s
RECURSIVE Run(_, _)
Run(s, chars) ==
    IF s # <<>> /\ Head(s) \in chars THEN 1 + Run(Tail(s), chars) ELSE 0

\* the second re.sub, with re.MULTILINE: at the start of a line, one to
\* three "#" followed by white space, all of which is removed; four or more
\* "#" do not match.  atStart: the scan is at the start of a line.
RECURSIVE Unhead(_, _)
Unhead(s, atStart) ==
    IF s = <<>> THEN <<>>
    ELSE LET n == Run(s, {"#"})
             rest == SubSeq(s, n + 1, Len(s))
             ws == Run(rest, Whitespace)
         IN IF atStart /\ n \in 1..3 /\ ws >= 1
            THEN Unhead(SubSeq(rest, ws + 1, Len(rest)), rest[ws] = "\n")
            ELSE <<Head(s)>> \o Unhead(Tail(s), Head(s) = "\n")

\* the third re.sub: a fence, the word characters after it and one newline
RECURSIVE Unfence(_)
Unfence(s) ==
    IF s = <<>> THEN <<>>
    ELSE IF StartsWith(s, <<"tick", "tick", "tick">>)
    THEN LET after == LStrip(SubSeq(s, 4, Len(s)), {"w"}) IN
         Unfence(IF after # <<>> /\ Head(after) = "\n" THEN Tail(after)
                 ELSE after)
    ELSE <<Head(s)>> \o Unfence(Tail(s))

sanitize_response(t) == Strip(Unfence(Unhead(Unbold(t), TRUE)))

SanitizeResponse ==
    /\ zpc = "start"
    /\ clean' = sanitize_response(dirty)
    /\ zpc' = "sanitized"
    /\ UNCHANGED dirty
    /\ UNCHANGED notSanitize

SanitizeInit ==
    /\ dirty \in DirtyTexts
    /\ zpc = "start"
    /\ clean = <<>>

SanitizeQuiet == dirty = <<>> /\ zpc = "start" /\ clean = <<>>

SanitizeNext == SanitizeResponse

(***************************************************************************)
(* Task chains (bridge/taskchain.py).                                      *)
(*                                                                         *)
(* A task file is absent, or holds text that is                            *)
(*   "object"   a JSON object, kept as its key/value pairs in their order  *)
(*   "value"    a complete JSON text that is not an object ([], null, 5)   *)
(*   "garbled"  text json.loads rejects (empty, truncated)                 *)
(*   "bytes"    bytes that are not text in the encoding read_text uses     *)
(* The value of "chain" is the number n of its tasks, the task at index i  *)
(* (from 0) being the task i + 1; the value of "loop" is 1 or 0; "goal" is *)
(* a field the chain code does not use.  NoTask stands for Python's None   *)
(* where a task is expected.                                               *)
(***************************************************************************)
NoTask == 0

Pair(k, v) == [k |-> k, v |-> v]

NoFile == [kind |-> "absent", pairs |-> <<>>, layout |-> "none"]

Junk(kind) == [kind |-> kind, pairs |-> <<>>, layout |-> "any"]

\* the concatenation of one choice from each of the sets of sequences
RECURSIVE Choices(_)
Choices(sets) ==
    IF sets = <<>> THEN {<<>>}
    ELSE {h \o t : h \in Head(sets), t \in Choices(Tail(sets))}

\* a key that is absent, or present with one of the values
Optional(k, values) == {<<>>} \cup {<<Pair(k, v)>> : v \in values}

\* what a task file may hold when the bridge is started
TaskFiles ==
    {NoFile, Junk("garbled"), Junk("value"), Junk("bytes")}
    \cup {[kind |-> "object", pairs |-> p, layout |-> "any"] :
            p \in Choices(<<Optional("chain", 0..MaxTasks),
                            Optional("loop", {0, 1}),
                            Optional("current_index", (0 - 1)..MaxTasks),
                            Optional("goal", {7})>>)}

\* the files of the second agent: one of each kind
OtherTaskFiles ==
    {NoFile, Junk("garbled"), Junk("value"),
     [kind |-> "object", layout |-> "any",
      pairs |-> <<Pair("chain", 1), Pair("current_index", 1)>>],
     [kind |-> "object", layout |-> "any",
      pairs |-> <<Pair("chain", 1), Pair("loop", 1)>>]}

Has(pairs, k) == \E i \in 1..Len(pairs) : pairs[i].k = k

\* data.get(k, default)
Get(pairs, k, default) ==
    IF Has(pairs, k)
    THEN pairs[CHOOSE i \in 1..Len(pairs) : pairs[i].k = k].v
    ELSE default

\* data[k] = v: the value of an existing key is replaced where it is, a new
\* key is added at the end
SetItem(pairs, k, v) ==
    IF Has(pairs, k)
    THEN [i \in 1..Len(pairs) |-> IF pairs[i].k = k THEN Pair(k, v) ELSE pairs[i]]
    ELSE Append(pairs, Pair(k, v))

\* json.dumps(data, indent=2) + "\n"
Dumps(pairs) == [kind |-> "object", pairs |-> pairs, layout |-> "indent2"]

NoChain == [chain |-> 0 - 1, loop |-> FALSE, current_index |-> 0]

\* TaskChain.__init__ (taskchain.py 12-17)
TaskChain(pairs) ==
    [chain |-> Get(pairs, "chain", 0),
     loop |-> Get(pairs, "loop", 0) # 0,
     current_index |-> Get(pairs, "current_index", 0)]

\* TaskChain.current_task (taskchain.py 19-23)
current_task(c) ==
    IF 0 <= c.current_index /\ c.current_index < c.chain
    THEN c.current_index + 1
    ELSE NoTask

\* TaskChain.is_complete (taskchain.py 25-27)
is_complete(c) == c.current_index >= c.chain

\* load_task_chain (taskchain.py 51-63): the result is a chain, None, or an
\* exception that the except clause does not name (AttributeError of
\* data.get on a value that is not a dict, UnicodeDecodeError of read_text)
load_task_chain(f) ==
    CASE f.kind \in {"absent", "garbled"} -> [raised |-> FALSE, held |-> NoChain]
      [] f.kind = "object" ->
            [raised |-> FALSE,
             held |-> IF is_complete(TaskChain(f.pairs)) THEN NoChain
                      ELSE TaskChain(f.pairs)]
      [] OTHER -> [raised |-> TRUE, held |-> NoChain]

\* an advance that would go on past the end of a looping chain
NextIndexNoWrap(c) == c.current_index + 1

\* an advance that would skip a task
NextIndexSkipping(c) ==
    IF c.current_index + 2 >= c.chain /\ c.loop THEN 0 ELSE c.current_index + 2

\* TaskChain.advance, the index (taskchain.py 31-34)
NextIndex(c) ==
    IF c.current_index + 1 >= c.chain /\ c.loop THEN 0 ELSE c.current_index + 1

\* TaskChain.advance, the value returned (taskchain.py 32-39)
Returned(c) ==
    LET after == [c EXCEPT !.current_index = NextIndex(c)] IN
    IF c.current_index + 1 >= c.chain /\ ~c.loop THEN NoTask
    ELSE current_task(after)

\* a _save that would write the index the chain had before the advance
StoredIndexBefore(c) == c.current_index - 1

\* the index _save writes: self.current_index (taskchain.py 45)
StoredIndex(c) == c.current_index

\* TaskChain._save (taskchain.py 41-48).  io: "ok"; "read" (read_text raises
\* OSError: the file is as it was); "write" (write_text raises OSError after
\* its open emptied the file).  OSError is passed over; JSONDecodeError,
\* UnicodeDecodeError and the TypeError of an item assignment on a value
\* that is not a dict leave _save and advance.
Save(f, c, io) ==
    CASE f.kind = "absent" \/ io = "read" ->
            [file |-> f, raised |-> FALSE, ioerror |-> TRUE]
      [] f.kind # "object" ->
            [file |-> f, raised |-> TRUE, ioerror |-> FALSE]
      [] io = "write" ->
            [file |-> Junk("garbled"), raised |-> FALSE, ioerror |-> TRUE]
      [] OTHER ->
            [file |-> Dumps(SetItem(f.pairs, "current_index", StoredIndex(c))),
             raised |-> FALSE, ioerror |-> FALSE]

NoAdvance == [agent |-> "none", raised |-> FALSE, ioerror |-> FALSE,
              returned |-> NoTask]

\* load_all_task_chains (taskchain.py 66-76) when the bridge starts: every
\* file of the directory is loaded; an exception of one load leaves it
LoadAll ==
    /\ chain_pc = "start"
    /\ IF \E a \in Agents : load_task_chain(tasks_dir[a]).raised
       THEN /\ chain_pc' = "raised"
            /\ UNCHANGED <<chains, started>>
       ELSE /\ chain_pc' = "loaded"
            /\ chains' = [a \in Agents |-> load_task_chain(tasks_dir[a]).held]
            /\ started' = [a \in Agents |->
                             load_task_chain(tasks_dir[a]).held.current_index]
    /\ UNCHANGED <<tasks_dir, advances, last_advance>>
    /\ UNCHANGED notChain

\* TaskChain.advance on the chain of agent a (taskchain.py 29-39)
Advance(a, io) ==
    /\ chain_pc = "loaded"
    /\ chains[a] # NoChain
    /\ advances[a] < MaxAdvances
    /\ advances' = [advances EXCEPT ![a] = @ + 1]
    /\ LET c == chains[a]
           after == [c EXCEPT !.current_index = NextIndex(c)]
           saved == Save(tasks_dir[a], after, io)
       IN /\ chains' = [chains EXCEPT ![a] = after]
          /\ tasks_dir' = [tasks_dir EXCEPT ![a] = saved.file]
          /\ last_advance' = [agent |-> a, raised |-> saved.raised,
                              ioerror |-> saved.ioerror,
                              returned |-> IF saved.raised THEN NoTask
                                           ELSE Returned(c)]
    /\ UNCHANGED <<chain_pc, started>>
    /\ UNCHANGED notChain

ChainInit ==
    /\ tasks_dir \in {d \in [Agents -> TaskFiles \cup OtherTaskFiles] :
                         d["a1"] \in TaskFiles /\ d["default"] \in OtherTaskFiles}
    /\ chains = [a \in Agents |-> NoChain]
    /\ chain_pc = "start"
    /\ started = [a \in Agents |-> 0]
    /\ advances = [a \in Agents |-> 0]
    /\ last_advance = NoAdvance

ChainQuiet ==
    /\ tasks_dir = [a \in Agents |-> NoFile]
    /\ chains = [a \in Agents |-> NoChain]
    /\ chain_pc = "start"
    /\ started = [a \in Agents |-> 0]
    /\ advances = [a \in Agents |-> 0]
    /\ last_advance = NoAdvance

ChainNext ==
    \/ LoadAll
    \/ \E a \in Agents, io \in {"ok", "read", "write"} : Advance(a, io)

(***************************************************************************)
(* The tailer is built over a log that may already hold lines.             *)
(***************************************************************************)
RECURSIVE InitialFile(_, _)
InitialFile(kinds, serial) ==
    IF kinds = <<>> THEN <<>>
    ELSE LineBytes(Head(kinds), serial) \o InitialFile(Tail(kinds), serial + 1)

InitialKinds == UNION {[1..n -> LineKinds] : n \in 0..MaxInitLines}

TailInit ==
    /\ fileExists \in BOOLEAN
    /\ \E ks \in InitialKinds :
          /\ (~fileExists => ks = <<>>)
          /\ file = InitialFile(ks, 1)
          /\ initCount = Len(ks)
          /\ nextSerial = Len(ks) + 1
    /\ last_size = InitOffset(fileExists, file)
    /\ current_size = 0
    /\ tpc = "idle"
    /\ npolls = 0
    /\ returned = [s \in Serials |-> 0]
    /\ sincePrev = NoActivity
    /\ lastPoll = NoPoll
    /\ truncs = 0

TailNext ==
    \/ \E kind \in LineKinds : GameAppend(kind)
    \/ GameTruncate
    \/ PollStat
    \/ PollRead

InitTail == TailInit /\ RconQuiet /\ WorkQuiet /\ StoreQuiet /\ LuaQuiet
    /\ FrameQuiet /\ HangQuiet /\ ParseQuiet /\ SanitizeQuiet /\ NoteQuiet
    /\ ChainQuiet

SpecTail == InitTail /\ [][TailNext]_vars

(***************************************************************************)
(* Properties of the Event Tailer (checked under SpecTail).                *)
(***************************************************************************)

\* C6: as long as the log is only appended to, every poll that reads has read
\* exactly the bytes from the offset it started with to the offset it
\* recorded, and no record is returned by more than one poll.
C6_ReadOnce ==
    truncs = 0 =>
        /\ (lastPoll.done /\ lastPoll.read) => lastPoll.readEnd = lastPoll.offsetAfter
        /\ \A s \in Serials : returned[s] <= 1

\* C7: when only well-formed lines were appended since the previous poll
\* returned (or since the tailer was built), the poll returns exactly those
\* records, in append order.
C7_ExactlyAppended ==
    (truncs = 0 /\ lastPoll.done /\ lastPoll.allGood) =>
        lastPoll.result = lastPoll.expected

\* C8: a poll made when the file has not grown since the previous poll
\* returned gives an empty list and leaves the offset where it was.
C8_NoGrowthEmpty ==
    (lastPoll.done /\ lastPoll.noGrowth) =>
        /\ lastPoll.result = <<>>
        /\ lastPoll.offsetAfter = lastPoll.offsetBefore

\* C9: no line of the log makes poll raise.
C9_PollNeverRaises == tpc # "raised"

\* C10: no record that was in the file when the tailer was built is ever
\* returned by a poll.
C10_InitialNeverReturned == \A s \in 1..initCount : returned[s] = 0

\* C10 witness: the log held a well-formed record when the tailer was built,
\* and a poll has since returned a record appended afterwards.
C10_Witness ==
    /\ truncs = 0 /\ initCount > 0 /\ Len(file) > 0 /\ file[1].k = "G"
    /\ \E s \in Serials : s > initCount /\ returned[s] > 0

\* C38: the offset never decreases; a poll that finds no file, or a file no
\* larger than the offset, returns an empty list and leaves the offset
\* unchanged; and a poll that returns records leaves the offset at the file
\* size its size check observed.
C38_OffsetMonotone ==
    [][/\ last_size' >= last_size
       /\ (tpc = "idle" /\ npolls' # npolls
             /\ (~fileExists \/ Len(file) <= last_size)) =>
               /\ lastPoll'.done /\ lastPoll'.result = <<>>
               /\ tpc' = "idle" /\ last_size' = last_size
       /\ (lastPoll' # lastPoll /\ lastPoll'.result # <<>>) =>
               /\ last_size' = current_size
               /\ lastPoll'.offsetAfter = current_size]_vars

\* C38 witness: the file was emptied and has grown again to less than the
\* offset, and the latest poll, made since, returned nothing without
\* reading and kept the offset.
C38_Witness ==
    /\ truncs >= 1 /\ fileExists
    /\ 0 < Len(file) /\ Len(file) < last_size
    /\ lastPoll.done /\ ~lastPoll.read /\ lastPoll.result = <<>>
    /\ lastPoll.offsetAfter = last_size
    /\ sincePrev = NoActivity /\ npolls >= 2

InitRcon == RconInit /\ TailQuiet /\ WorkQuiet /\ StoreQuiet /\ LuaQuiet
    /\ FrameQuiet /\ HangQuiet /\ ParseQuiet /\ SanitizeQuiet /\ NoteQuiet
    /\ ChainQuiet

SpecRcon == InitRcon /\ [][RconNext]_vars

(***************************************************************************)
(* Properties of the transport and its guard (checked under SpecRcon).     *)
(***************************************************************************)

\* C4: at most one thread is inside the underlying RCONClient.execute, and
\* it is the thread that holds the lock.
C4_OneInsideExecute ==
    /\ Cardinality({t \in Threads : rpc[t] \in Inside}) <= 1
    /\ \A t \in Threads : rpc[t] \in Inside => lock = t

\* C4 witness: one thread is reading the response inside execute while the
\* other waits at the lock.
C4_Witness == \E t, u \in Threads : rpc[t] = "recv1" /\ rpc[u] = "wait"

\* C5: an execute call sends its command at most twice and reconnects at most
\* once; it sends a second time only after its one reconnect; once a
\* connection-level error hit the first attempt, the call has reconnected
\* exactly once when it ends, and it has sent twice unless the reconnect
\* failed; a call that ended has sent at least once.
C5_OneRetry ==
    \A t \in Threads :
        LET c == call[t] IN
        /\ c.sends <= 2 /\ c.reconnects <= 1
        /\ c.sends = 2 => (c.reconnects = 1 /\ c.connErr)
        /\ c.reconnects = 1 => c.connErr
        /\ c.result # "none" =>
              /\ c.sends >= 1
              /\ c.connErr => c.reconnects = 1
              /\ (c.connErr /\ c.result = "ok") => c.sends = 2
              /\ ~c.connErr => (c.sends = 1 /\ c.reconnects = 0)

\* C5 witness: a call ended raising after its one reconnect and its second
\* send both happened (the resent command failed).
C5_Witness ==
    \E t \in Threads :
        /\ call[t].result = "raised_conn"
        /\ call[t].sends = 2 /\ call[t].reconnects = 1

\* the step of thread t in which sendall hands its command frame to the
\* socket
CommandSent(t) ==
    rpc[t] \in {"send1", "send2"} /\ rpc'[t] \in {"recv1", "recv2"}

\* C23: every access to the shared socket is made under the lock: at most
\* one thread is inside execute and it holds the lock, and the close of the
\* router at shutdown happens only while no thread holds the lock, so that
\* it never overlaps an execute in flight.
C23_SocketAccessGuarded ==
    /\ [](\A t, u \in Threads :
             (rpc[t] \in Inside /\ rpc[u] \in Inside) => (t = u /\ lock = t))
    /\ [][closed' # closed => (lock = "none" /\ \A t \in Threads :
                                                  rpc[t] \notin Inside)]_vars

\* C28: opening a socket costs one authentication frame, and no command
\* frame is sent on a socket whose authentication round was answered with
\* the rejection id.
C28_NoCommandAfterRejection ==
    [][/\ conn' # conn => request_id' <= request_id + 1
       /\ \A t \in Threads : CommandSent(t) => auth # "rejected"]_vars

\* C30: a command frame is sent on a socket only when no response to an
\* earlier command frame is still unread on it, and an execute that returns
\* returns the response to its own command.
C30_RequestResponse ==
    /\ [][\A t \in Threads : CommandSent(t) => pending = <<>>]_vars
    /\ [](\A t \in Threads :
             call[t].result = "ok" => call[t].reply = call[t].id)

\* a step in which a frame is handed to the current socket
FrameSent == frames' # frames /\ frames' > 0

\* C31: the frame handed to a socket as its j-th frame carries id j, the
\* authentication frame of every socket being its first; and a response
\* frame that is ready is returned to the caller whatever call it answers.
C31_IdsPerConnection ==
    /\ [][FrameSent => request_id' = frames']_vars
    /\ [](\A t \in Threads :
             (rpc[t] \in {"recv1", "recv2"} /\ sockUp /\ pending # <<>>)
                 => ENABLED Recv(t, "ok"))

\* thread t has sent its command and its execute has not ended yet
AfterFirstSend(t) == rpc[t] \in {"recv1", "connect", "send2", "recv2"}

\* C37: from the first send of a command by a thread to the end of its
\* execute, retry included, no other thread sends a frame; and when a thread
\* leaves execute, by a return or by an exception of the first attempt or of
\* the retry, the lock is free again.
C37_RetryInsideCriticalSection ==
    /\ [][\A t, u \in Threads :
            (AfterFirstSend(t) /\ u # t) =>
                ~CommandSent(u) /\ (FrameSent => rpc'[t] # rpc[t])]_vars
    /\ [][\A t \in Threads :
            (rpc[t] \in Inside /\ rpc'[t] = "out") => lock' = "none"]_vars
    /\ [](\A t \in Threads : rpc[t] \notin Inside => lock # t)

\* C37 witness: the retry of one thread raised after its reconnect and its
\* second send, and the other thread, which had been waiting, is now inside
\* execute with the lock.
C37_Witness ==
    \E t, u \in Threads :
        /\ t # u
        /\ call[t].result = "raised_conn" /\ call[t].sends = 2
        /\ rpc[t] = "out"
        /\ lock = u /\ AfterFirstSend(u)

InitWork == WorkInit /\ TailQuiet /\ RconQuiet /\ StoreQuiet /\ LuaQuiet
    /\ FrameQuiet /\ HangQuiet /\ ParseQuiet /\ SanitizeQuiet /\ NoteQuiet
    /\ ChainQuiet

SpecWork == InitWork /\ [][WorkNext]_vars

(***************************************************************************)
(* Properties of the Agent Workers (checked under SpecWork).               *)
(***************************************************************************)
IsPrefix(p, q) == Len(p) <= Len(q) /\ SubSeq(q, 1, Len(p)) = p

\* C1: for every agent at most one external process is in flight, and one is
\* in flight exactly while its worker is in an invocation.
C1_OneInvocation ==
    \A a \in Agents :
        /\ inflight[a] <= 1
        /\ wstate[a] = "Idle" => inflight[a] = 0
        /\ wstate[a] = "Invoking" => inflight[a] = 1

\* C1 witness: an invocation is in flight while the next message of the same
\* agent waits in the inbox.
C1_Witness == \E a \in Agents : wstate[a] = "Invoking" /\ inbox[a] # <<>>

\* C2: the replies of an agent answer the messages enqueued for it one-to-one
\* and in order: they always answer a prefix of them, and all of them once
\* the worker has nothing left to do (a worker stopped by a transport failure
\* set aside).
C2_RepliesMatchEnqueued ==
    \A a \in Agents :
        /\ IsPrefix(replies[a], enqueued[a])
        /\ (death[a] # "transport" /\ wstate[a] # "Invoking" /\ inbox[a] = <<>>) =>
              replies[a] = enqueued[a]

\* C3: no failure while handling a message ends the worker thread.
C3_WorkerStaysAlive == \A a \in Agents : wstate[a] # "Dead"

C12_BroadcastTagged ==
    /\ routed = "all" =>
          \A a \in Agents : CountIn(enqueued[a], nmsgs) = 1
    /\ relayed.agent # "none" =>
          IF \A a \in Agents : CountIn(enqueued[a], relayed.msg) = 1
          THEN relayed.channel = "all" /\ relayed.tagged
          ELSE relayed.channel = relayed.agent

\* C16: a turn whose process exited non-zero with output on stderr and without
\* text relays exactly one error string of at most 7 + 200 characters and
\* leaves the agent's token as it was, in memory and in the session file.
C16_ErrorPathKeepsToken ==
    [][\A a \in Agents :
          (relayed'.agent = a /\ relayed'.exit = "nonzero_stderr"
             /\ ~turn[a].has_text) =>
              /\ relayed'.kind = "error"
              /\ relayed'.errlen <= 7 + 200
              /\ replies'[a] = Append(replies[a], turn[a].msg)
              /\ session_id'[a] = session_id[a]
              /\ sessionFile'[a] = sessionFile[a]]_vars

\* C17: a turn whose process could not be launched because the binary is
\* missing relays exactly one error reply and, the transport and the session
\* file taking what the worker sends them, leaves the agent's token as it was
\* in memory and in the session file, the worker being back at its inbox.
C17_LaunchFailureKeepsToken ==
    [][\A a \in Agents :
          (relayed'.agent = a /\ relayed'.kind = "nocli"
             /\ relayed'.fault = "none") =>
              /\ replies'[a] = Append(replies[a], Head(inbox[a]).id)
              /\ inbox'[a] = Tail(inbox[a])
              /\ session_id'[a] = session_id[a]
              /\ sessionFile'[a] = sessionFile[a]
              /\ wstate'[a] = "Idle"]_vars

\* C17 witness: an agent holding a token relayed the launch error and is back
\* at its inbox, where its next message waits.
C17_Witness ==
    /\ relayed.kind = "nocli" /\ relayed.fault = "none"
    /\ session_id[relayed.agent] # None
    /\ sessionFile[relayed.agent] = session_id[relayed.agent]
    /\ wstate[relayed.agent] = "Idle" /\ inbox[relayed.agent] # <<>>

\* C18: a turn whose process exited non-zero after text was streamed relays
\* that text as the normal reply, once, and (the session file taking the
\* write) ends as a completed turn: the token the stream carried is the
\* agent's token in memory and in the session file.
C18_PartialTextIsReply ==
    [][\A a \in Agents :
          (relayed'.agent = a /\ turn[a].has_text
             /\ relayed'.exit \in {"nonzero_stderr", "nonzero_silent"}) =>
              /\ relayed'.kind = "reply"
              /\ replies'[a] = Append(replies[a], turn[a].msg)
              /\ relayed'.fault = "none" =>
                    /\ wstate'[a] = "Idle"
                    /\ IF turn[a].new_session_id # None
                       THEN /\ session_id'[a] = turn[a].new_session_id
                            /\ sessionFile'[a] = turn[a].new_session_id
                       ELSE /\ session_id'[a] = session_id[a]
                            /\ sessionFile'[a] = sessionFile[a]]_vars

\* C18 witness: the process wrote to stderr and exited non-zero after text and
\* a fresh token were streamed; the text went out as the reply and the fresh
\* token is in the session file.
C18_Witness ==
    /\ relayed.exit = "nonzero_stderr" /\ relayed.kind = "reply"
    /\ relayed.fault = "none"
    /\ sessionFile[relayed.agent] = Token(relayed.agent, relayed.msg)

\* C19: the reply of a turn that reached the end of the stream is decided by
\* exit code, stderr and text: the error string exactly when the exit code is
\* non-zero, stderr is non-empty and there is no text; otherwise the text, or
\* the placeholder when there is none; and exactly one reply is relayed.
C19_OutcomeByExitAndText ==
    [][\A a \in Agents :
          (relayed'.agent = a /\ relayed'.exit # "none") =>
              /\ relayed'.kind = "error" <=>
                    (relayed'.exit = "nonzero_stderr" /\ ~turn[a].has_text)
              /\ relayed'.kind = "reply" <=> turn[a].has_text
              /\ relayed'.kind = "placeholder" <=>
                    (~turn[a].has_text
                       /\ relayed'.exit \in {"zero", "nonzero_silent"})
              /\ replies'[a] = Append(replies[a], turn[a].msg)]_vars

\* C19 witness: a process that exited 0 got the placeholder as its reply.
C19_Witness == relayed.exit = "zero" /\ relayed.kind = "placeholder"

\* C29: whenever a worker is idle, the token its session file holds is the
\* token it will pass to its next invocation; a turn that ends with a token
\* leaves that token both in memory and in the file; and a session file
\* that holds a token never stops holding one.
C29_RecordFollowsToken ==
    /\ [](\A a \in Agents : wstate[a] = "Idle" => sessionFile[a] = session_id[a])
    /\ [][\A a \in Agents :
            (wstate[a] = "Invoking" /\ wstate'[a] = "Idle"
               /\ turn[a].new_session_id # None) =>
                  /\ session_id'[a] = turn[a].new_session_id
                  /\ sessionFile'[a] = turn[a].new_session_id]_vars
    /\ [][\A a \in Agents :
            sessionFile[a] # None => sessionFile'[a] # None]_vars

InitStore == StoreInit /\ TailQuiet /\ RconQuiet /\ WorkQuiet /\ LuaQuiet
    /\ FrameQuiet /\ HangQuiet /\ ParseQuiet /\ SanitizeQuiet /\ NoteQuiet
    /\ ChainQuiet

SpecStore == InitStore /\ [][StoreNext]_vars

(***************************************************************************)
(* Properties of the Session Store (checked under SpecStore).              *)
(***************************************************************************)

\* C13: once a save for an agent has returned, and until the next save for it
\* starts, a process that has just started loads exactly the token of that
\* save: the last one saved for the agent.
C13_LoadReturnsLastSaved ==
    \A a \in Agents :
        (spc \in {"idle", "down"} /\ lastSaved[a] # None) =>
            /\ load_session(a) = [raised |-> FALSE, value |-> lastSaved[a]]
            /\ loaded.agent = a =>
                  (~loaded.raised /\ loaded.value = lastSaved[a])

\* C13 witness: after two saves for an agent, a process that has just started
\* loaded the token of the second one.
C13_Witness ==
    \E a \in Agents :
        /\ nsaves[a] = 2 /\ lastSaved[a] = Token(a, 2)
        /\ loaded = [agent |-> a, raised |-> FALSE, value |-> Token(a, 2)]

\* C14: load never raises, and it returns none when the agent's session file
\* is absent and when what the file holds cannot be parsed as a session
\* record.
C14_LoadNoneNeverRaises ==
    \A a \in Agents :
        loaded.agent = a =>
            /\ ~loaded.raised
            /\ (~disk[a].exists \/ json_loads(disk[a].text).kind # "object") =>
                  loaded.value = None

\* C15: when the process died inside a save that was to replace a token, a
\* load made afterwards returns the token held before or the token being
\* saved.
C15_SaveAtomic ==
    (spc = "down" /\ loaded.agent = saving.agent
       /\ ~before.raised /\ before.value # None) =>
        /\ ~loaded.raised
        /\ loaded.value \in {before.value, saving.token}

\* C24: a step of a save for one agent (the open, the write, or the death of
\* the process in between) leaves what load_session returns for every other
\* agent as it was, and changes no file but the one of the agent saved for.
C24_SaveTouchesOwnRecordOnly ==
    [][disk' # disk =>
         \A b \in Agents \ {saving'.agent} :
             /\ load_session(b)' = load_session(b)
             /\ disk'[b] = disk[b]]_vars

\* C24 witness: both agents have saved; the save that ended last was for one
\* of them, and the other still loads the token of its own earlier save.
C24_Witness ==
    \E a \in Agents : \E b \in Agents \ {a} :
        /\ spc = "idle" /\ saving.agent = a
        /\ lastSaved[a] # None /\ lastSaved[b] # None
        /\ load_session(a) = [raised |-> FALSE, value |-> lastSaved[a]]
        /\ load_session(b) = [raised |-> FALSE, value |-> lastSaved[b]]

InitLua == LuaInit /\ TailQuiet /\ RconQuiet /\ WorkQuiet /\ StoreQuiet
    /\ FrameQuiet /\ HangQuiet /\ ParseQuiet /\ SanitizeQuiet /\ NoteQuiet
    /\ ChainQuiet

SpecLua == InitLua /\ [][LuaNext]_vars

(***************************************************************************)
(* Properties of lua_long_string (checked under SpecLua).                  *)
(***************************************************************************)

\* C20: read as a long-bracket string of the level lua_long_string chose, the
\* wrapped text closes at the delimiter that was appended and its content is
\* exactly the text that was wrapped.
C20_UnwrapYieldsText ==
    lpc = "read" =>
        /\ unwrapped.content = text
        /\ unwrapped.closedAt = Len(wrapped) - Len(Closer(level)) + 1

\* L times "="
Signs(L) == [i \in 1..L |-> "="]

\* pat is a substring of s
Substring(pat, s) ==
    \E i \in 0..(Len(s) - Len(pat)) :
        \A j \in 1..Len(pat) : s[i + j] = pat[j]

\* C32: the level chosen is the smallest L for which "]", L times "=", "]"
\* is not a substring of the text, 0 when the text holds no "]]"; and the
\* result is "[", L times "=", "[", the text, "]", L times "=", "]".
C32_MinimalLevel ==
    lpc \in {"wrapped", "read"} =>
        /\ ~Substring(<<"]">> \o Signs(level) \o <<"]">>, text)
        /\ \A L \in 0..(level - 1) :
              Substring(<<"]">> \o Signs(L) \o <<"]">>, text)
        /\ ~Substring(<<"]", "]">>, text) => level = 0
        /\ wrapped = <<"[">> \o Signs(level) \o <<"[">> \o text
                        \o <<"]">> \o Signs(level) \o <<"]">>

\* C32 witness: a text that holds the closing delimiters of levels 0 and 1
\* was wrapped at level 2.
C32_Witness ==
    /\ lpc = "wrapped" /\ level = 2
    /\ Substring(<<"]", "]">>, text) /\ Substring(<<"]", "=", "]">>, text)

InitFrame == FrameInit /\ TailQuiet /\ RconQuiet /\ WorkQuiet /\ StoreQuiet
    /\ LuaQuiet /\ HangQuiet /\ ParseQuiet /\ SanitizeQuiet /\ NoteQuiet
    /\ ChainQuiet

SpecFrame == InitFrame /\ [][FrameNext]_vars

(***************************************************************************)
(* Properties of the frame codec (checked under SpecFrame).                *)
(***************************************************************************)

\* the number of bytes UTF-8 uses for a code point
Width(cp) == IF cp < 128 THEN 1 ELSE IF cp < 2048 THEN 2
             ELSE IF cp < 65536 THEN 3 ELSE 4

RECURSIVE ByteLength(_)
ByteLength(s) == IF s = <<>> THEN 0 ELSE Width(Head(s)) + ByteLength(Tail(s))

\* C21: the frame built for payload p and correlation id i carries, in its
\* length field, 10 plus the UTF-8 byte length of p, and is 4 bytes longer
\* than that; decoding it gives back i, the packet type and p, and consumes
\* the whole frame.
C21_FrameLaw ==
    /\ fpc \in {"sent", "received"} =>
          /\ UnpackLe32(SubSeq(packet, 1, 4)) = 10 + ByteLength(payload)
          /\ Len(packet) = 4 + 10 + ByteLength(payload)
    /\ fpc = "received" =>
          /\ received.req_id = prev_id + 1
          /\ received.pkt_type = packet_type
          /\ received.body = payload
          /\ received.rest = <<>>

\* C21 witness: a payload with a multi-byte character and a NUL, sent under
\* a correlation id that needs more than one byte, was decoded.
C21_Witness ==
    /\ fpc = "received"
    /\ \E k \in 1..Len(payload) : payload[k] >= 128
    /\ \E k \in 1..Len(payload) : payload[k] = 0
    /\ prev_id >= 255

InitHang == WorkInit /\ mcp_config /\ sessionFile["a1"] = None /\ HangQuiet
    /\ TailQuiet /\ RconQuiet /\ StoreQuiet /\ LuaQuiet /\ FrameQuiet
    /\ ParseQuiet /\ SanitizeQuiet /\ NoteQuiet /\ ChainQuiet

\* Every worker is a thread of its own and is scheduled; the process of a
\* worker that is not the hanging one ends.
HangFairness ==
    \A a \in Agents :
        /\ WF_vars(Take(a))
        /\ WF_vars(End(a))

SpecHang == InitHang /\ [][HangNext]_vars /\ HangFairness

(***************************************************************************)
(* Properties of a hang (checked under SpecHang).                          *)
(***************************************************************************)
\* the turns the model may still start
TurnsLeft == Taken(Agents) < MaxTurns

\* C22: once the process of agent a hangs, a stays in Invoking for ever and
\* relays nothing more, while its inbox keeps what is enqueued; the router
\* can always route the next message; and every agent b whose process does
\* not hang again and again reaches the point where it has relayed a reply
\* for every message enqueued for it, in their order (or the model's bound
\* on turns is used up while b is idle).
C22_HangStallsOnlyItsAgent ==
    /\ [][\A a \in hung :
            /\ a \in hung'
            /\ wstate'[a] = "Invoking"
            /\ replies'[a] = replies[a]
            /\ IsPrefix(inbox[a], inbox'[a])]_vars
    /\ [](nmsgs < MaxMsgs =>
            ENABLED (\E target \in Targets : Route(target)))
    /\ \A b \in Agents :
          []<>(\/ b \in hung
               \/ replies[b] = enqueued[b]
               \/ ~TurnsLeft /\ wstate[b] = "Idle")

\* C22 witness: the process of a hangs while a message waits in a's inbox,
\* and the other agent has relayed the reply to a message that was routed
\* after the one a hangs on.
C22_Witness ==
    \E a \in hung : \E b \in Agents \ hung :
        /\ wstate[a] = "Invoking"
        /\ inbox[a] # <<>>
        /\ death[b] = "none"
        /\ \E i \in 1..Len(replies[b]) : replies[b][i] > turn[a].msg

InitParse == ParseInit /\ TailQuiet /\ RconQuiet /\ WorkQuiet /\ StoreQuiet
    /\ LuaQuiet /\ FrameQuiet /\ HangQuiet /\ SanitizeQuiet /\ NoteQuiet
    /\ ChainQuiet

SpecParse == InitParse /\ [][ParseNext]_vars

(***************************************************************************)
(* Properties of parse_response (checked under SpecParse).                 *)
(***************************************************************************)

\* a line without its surrounding white space and without one leading "- "
OneBulletRemoved(line) ==
    LET s == Strip(line) IN
    Strip(IF Len(s) >= 2 /\ s[1] = "-" /\ s[2] = " "
          THEN SubSeq(s, 3, Len(s)) ELSE s)

\* the non-empty lines of a section body, each with one bullet removed
RECURSIVE BulletLines(_)
BulletLines(lines) ==
    IF lines = <<>> THEN <<>>
    ELSE (IF Strip(Head(lines)) # <<>>
          THEN <<OneBulletRemoved(Head(lines))>> ELSE <<>>)
           \o BulletLines(Tail(lines))

\* the numbers of the matches, after the first, whose label contains ACTION
ActionSections(t) ==
    LET ms == Matches(t, 1) IN
    {i \in 2..Len(ms) : IsActionLabel(t[ms[i]])}

\* C25: when one section after the first is an ACTION section, the actions
\* are the non-empty lines of its body, in order, each with one leading "- "
\* removed (white space around a line set aside); and the example of the
\* spec gives header STATUS with text "ok" and the actions "mined ore" and
\* "crafted gear".
C25_ActionsAreBulletLines ==
    ppc = "parsed" =>
        /\ \A i \in ActionSections(raw) :
              ActionSections(raw) = {i} =>
                 LET lines == SplitOn(Content(raw, Matches(raw, 1), i), "\n")
                 IN  /\ parsed.actions = BulletLines(lines)
                     /\ "actions" \in parsed.keys <=> BulletLines(lines) # <<>>
        /\ raw = ExampleRaw =>
              /\ parsed.header = [label |-> "STATUS", text |-> <<"o", "k">>]
              /\ parsed.actions =
                    <<<<"m", "i", "n", "e", "d", " ", "o", "r", "e">>,
                      <<"c", "r", "a", "f", "t", "e", "d", " ", "g", "e", "a",
                        "r">>>>

\* C26: for a text without a section header the result has the one key
\* "body", whose value is the text as it was given.
C26_NoMarkerIsBody ==
    (ppc = "parsed" /\ Matches(raw, 1) = <<>>) =>
        /\ parsed.keys = {"body"}
        /\ parsed.body = raw

\* C26 witness: a text without a header that starts with white space and
\* holds a line break was parsed.
C26_Witness ==
    /\ ppc = "parsed" /\ Matches(raw, 1) = <<>>
    /\ Len(raw) >= 3 /\ raw[1] = " "
    /\ \E i \in 1..Len(raw) : raw[i] = "\n"
    /\ \E i \in 1..Len(raw) : raw[i] = "x"

InitSanitize == SanitizeInit /\ TailQuiet /\ RconQuiet /\ WorkQuiet
    /\ StoreQuiet /\ LuaQuiet /\ FrameQuiet /\ HangQuiet /\ ParseQuiet
    /\ NoteQuiet /\ ChainQuiet

SpecSanitize == InitSanitize /\ [][SanitizeNext]_vars

(***************************************************************************)
(* Properties of sanitize_response (checked under SpecSanitize).           *)
(***************************************************************************)

\* position i of s is the start of a line
LineStart(s, i) == i = 1 \/ s[i - 1] = "\n"

\* a bold pair: "**", some text of the same line, "**"
HasBold(s) ==
    \E i, j \in 1..(Len(s) - 1) :
        /\ j >= i + 3
        /\ s[i] = "*" /\ s[i + 1] = "*" /\ s[j] = "*" /\ s[j + 1] = "*"
        /\ \A k \in (i + 2)..(j - 1) : s[k] # "\n"

\* a heading marker: at the start of a line, a run of "#" and white space
HasHeading(s) ==
    \E i \in 1..Len(s) :
        /\ LineStart(s, i) /\ s[i] = "#"
        /\ LET n == Run(SubSeq(s, i, Len(s)), {"#"})
           IN i + n <= Len(s) /\ s[i + n] \in Whitespace

\* a code fence
HasFence(s) == \E i \in 1..(Len(s) - 2) : SubSeq(s, i, i + 2) = <<"tick", "tick", "tick">>

\* no character sequence of markdown at all: no "**", no fence, no "#" at
\* the start of a line
MarkerFree(s) ==
    /\ ~HasFence(s)
    /\ \A i \in 1..(Len(s) - 1) : ~(s[i] = "*" /\ s[i + 1] = "*")
    /\ \A i \in 1..Len(s) : ~(LineStart(s, i) /\ s[i] = "#")

\* the rich-text tags of a text, in their order
RECURSIVE TagsOf(_)
TagsOf(s) ==
    IF s = <<>> THEN <<>>
    ELSE IF Len(s) >= 3 /\ s[1] = "[" /\ s[3] = "]"
    THEN <<SubSeq(s, 1, 3)>> \o TagsOf(SubSeq(s, 4, Len(s)))
    ELSE TagsOf(Tail(s))

\* C27: the sanitized text holds no bold pair, no heading marker at the
\* start of a line and no code fence; it holds the rich-text tags of the raw
\* text, unchanged and in the same order; and a text without markdown comes
\* back as it was, except for the white space around it.
C27_MarkdownRemovedTagsKept ==
    zpc = "sanitized" =>
        /\ ~HasBold(clean) /\ ~HasHeading(clean) /\ ~HasFence(clean)
        /\ TagsOf(clean) = TagsOf(dirty)
        /\ MarkerFree(dirty) => clean = Strip(dirty)

(***************************************************************************)
(* The workers under fair scheduling.  Each AgentThread is a thread of its *)
(* own (pipe.py 457-462): a worker that can take a message takes it, and   *)
(* the process a worker waits for ends.                                    *)
(***************************************************************************)
LiveFairness ==
    \A a \in Agents :
        /\ WF_vars(DequeueStep(a))
        /\ WF_vars(FinishStep(a))

SpecLive == InitWork /\ [][WorkNext]_vars /\ LiveFairness

\* C36: a worker none of whose transport calls failed relays one reply for
\* each message enqueued for it, in their order, and again and again reaches
\* the point where it is Idle with every message enqueued for it dequeued
\* and answered (or with the model's bound on turns used up).
C36_EveryMessageAnswered ==
    \A a \in Agents :
        /\ [](IsPrefix(replies[a], enqueued[a]))
        /\ []<>(\/ death[a] = "transport"
                \/ wstate[a] = "Idle" /\ replies[a] = enqueued[a]
                \/ wstate[a] = "Idle" /\ ~TurnsLeft)

InitNote == WorkInit /\ sessionFile = [a \in Agents |-> None] /\ NoteInit
    /\ TailQuiet /\ RconQuiet /\ StoreQuiet /\ LuaQuiet /\ FrameQuiet /\ HangQuiet
    /\ ParseQuiet /\ SanitizeQuiet /\ ChainQuiet

SpecNote == InitNote /\ [][NoteNext]_vars

(***************************************************************************)
(* Properties of the status notifications (checked under SpecNote).        *)
(***************************************************************************)
\* the worker of agent a took a message in this step
TookMessage(a) == inbox[a] # <<>> /\ inbox'[a] = Tail(inbox[a])

\* C33: a worker whose "Thinking..." notification raised goes on as it would
\* have: it starts the process for the message it took, or relays the error
\* of a missing command or configuration; a worker whose tool notification
\* raised goes on reading the stream; the turn ends with the reply for its
\* message relayed, the worker Idle; and no worker ends or relays a reply
\* twice.
C33_StatusBestEffort ==
    /\ [][\A a \in Agents :
            /\ (TookMessage(a) /\ status_lost'[a] # {}) =>
                 \/ /\ wstate'[a] = "Invoking" /\ inflight'[a] = 1
                    /\ turn'[a].msg = Head(inbox[a]).id
                 \/ /\ wstate'[a] = "Idle"
                    /\ relayed'.agent = a /\ relayed'.msg = Head(inbox[a]).id
                    /\ relayed'.kind \in {"nocli", "nomcp"}
            /\ (wstate[a] = "Invoking" /\ status_lost'[a] # status_lost[a]) =>
                 /\ wstate'[a] = "Invoking" /\ turn'[a] = turn[a]
            /\ (status_lost[a] # {} /\ wstate[a] = "Invoking"
                  /\ wstate'[a] # "Invoking") =>
                 /\ wstate'[a] = "Idle"
                 /\ relayed'.agent = a /\ relayed'.msg = turn[a].msg
                 /\ replies'[a] = Append(replies[a], turn[a].msg)]_vars
    /\ [](\A a \in Agents :
             wstate[a] # "Dead" /\ IsPrefix(replies[a], enqueued[a]))

\* C33 witness: in one turn both the "Thinking..." notification and a tool
\* notification raised, and the turn has just relayed the reply built from
\* the text of the stream.
C33_Witness ==
    \E a \in Agents :
        /\ status_lost[a] = {"thinking", "tool"}
        /\ relayed.agent = a /\ relayed.kind = "reply"
        /\ wstate[a] = "Idle"
        /\ replies[a] # <<>>

InitChain == ChainInit /\ TailQuiet /\ RconQuiet /\ WorkQuiet /\ StoreQuiet
    /\ LuaQuiet /\ FrameQuiet /\ HangQuiet /\ ParseQuiet /\ SanitizeQuiet
    /\ NoteQuiet

SpecChain == InitChain /\ [][ChainNext]_vars

(***************************************************************************)
(* Properties of the task chains (checked under SpecChain).                *)
(***************************************************************************)
\* the step is an advance call on the chain of agent a
Advanced(a) == advances'[a] = advances[a] + 1

\* the chain of agent a was loaded with its index inside the chain
LoadedInRange(a) ==
    chains[a] # NoChain /\ 0 <= started[a] /\ started[a] < chains[a].chain

\* the pairs of a file other than the one of key k
RECURSIVE Without(_, _)
Without(pairs, k) ==
    IF pairs = <<>> THEN <<>>
    ELSE IF Head(pairs).k = k THEN Without(Tail(pairs), k)
    ELSE <<Head(pairs)>> \o Without(Tail(pairs), k)

\* C34: an advance call that returns returns the new current task or None;
\* on a chain of n tasks loaded at index i that does not loop, the k-th call
\* returns the task at index i + k while k <= n - i - 1 and None from the
\* (n - i)-th call on; on a chain that loops no call returns None and the
\* call made at index n - 1 returns the task at index 0.
C34_AdvanceReturnsNext ==
    [][\A a \in Agents :
         (Advanced(a) /\ ~last_advance'.raised /\ LoadedInRange(a)) =>
            LET n == chains[a].chain
                i == started[a]
                k == advances'[a]
                ret == last_advance'.returned
            IN /\ ret \in {NoTask, current_task(chains'[a])}
               /\ ~chains[a].loop =>
                     ret = IF k <= n - i - 1 THEN (i + k) + 1 ELSE NoTask
               /\ chains[a].loop =>
                     /\ ret # NoTask
                     /\ chains[a].current_index = n - 1 => ret = 1]_vars

\* C34 witness: a chain of at least two tasks that does not loop, loaded at
\* its first task, was advanced once per task, and the last call returned
\* None.
C34_Witness ==
    \E a \in Agents :
        /\ LoadedInRange(a) /\ ~chains[a].loop
        /\ chains[a].chain >= 2 /\ started[a] = 0
        /\ advances[a] = chains[a].chain
        /\ last_advance.agent = a /\ ~last_advance.raised
        /\ last_advance.returned = NoTask

\* C35: loading never raises; the load of a file that is missing, is not
\* parsable or describes a completed chain gives None and the load of any
\* other file gives a chain at the index the file holds; and the chains
\* load_all_task_chains holds are those of the agents whose load gives one.
C35_LoadNeverRaises ==
    /\ chain_pc # "raised"
    /\ (chain_pc = "loaded" /\ \A a \in Agents : advances[a] = 0) =>
          \A a \in Agents :
              LET f == tasks_dir[a]
                  n == Get(f.pairs, "chain", 0)
                  i == Get(f.pairs, "current_index", 0)
              IN IF f.kind # "object" \/ i >= n
                 THEN chains[a] = NoChain
                 ELSE chains[a] # NoChain /\ chains[a].current_index = i
                      /\ chains[a].chain = n

\* C39: after an advance that returned and whose save met no I/O error, the
\* task file is a JSON object whose current_index is the index in memory and
\* whose other fields are the ones it had, in their order; loading it gives
\* the chain as it is in memory, or no chain when that one is complete.
C39_SavedIndexFollowsMemory ==
    [][\A a \in Agents :
         (Advanced(a) /\ ~last_advance'.raised /\ ~last_advance'.ioerror) =>
            LET f == tasks_dir'[a]
                c == chains'[a]
            IN /\ f.kind = "object"
               /\ Has(f.pairs, "current_index")
               /\ Get(f.pairs, "current_index", 0) = c.current_index
               /\ Without(f.pairs, "current_index") =
                     Without(tasks_dir[a].pairs, "current_index")
               /\ ~load_task_chain(f).raised
               /\ load_task_chain(f).held =
                     IF is_complete(c) THEN NoChain ELSE c]_vars

\* C39 witness: the latest advance saved its index into a file that had no
\* current_index before the first save and has a field of its own; the
\* chain is past its first task and not complete.
C39_Witness ==
    \E a \in Agents :
        LET f == tasks_dir[a] IN
        /\ last_advance.agent = a
        /\ ~last_advance.raised /\ ~last_advance.ioerror
        /\ f.kind = "object" /\ f.layout = "indent2"
        /\ Has(f.pairs, "goal")
        /\ f.pairs[Len(f.pairs)].k = "current_index"
        /\ chains[a].current_index >= 1 /\ ~is_complete(chains[a])

\* C40: a looping chain loaded in range keeps its index inside the chain
\* and is never complete; the index of a chain that does not loop never
\* decreases, and once such a chain is complete it stays complete and its
\* current task stays None.
C40_IndexInvariants ==
    /\ [](\A a \in Agents :
             (LoadedInRange(a) /\ chains[a].loop) =>
                /\ 0 <= chains[a].current_index
                /\ chains[a].current_index < chains[a].chain
                /\ ~is_complete(chains[a]))
    /\ [][\A a \in Agents :
            (LoadedInRange(a) /\ ~chains[a].loop) =>
               /\ chains'[a].current_index >= chains[a].current_index
               /\ is_complete(chains[a]) =>
                     /\ is_complete(chains'[a])
                     /\ current_task(chains'[a]) = NoTask]_vars

\* C40 witness: a looping chain of at least two tasks was advanced once per
\* task and is back at the index it was loaded at.
C40_Witness ==
    \E a \in Agents :
        /\ LoadedInRange(a) /\ chains[a].loop
        /\ chains[a].chain >= 2
        /\ advances[a] = chains[a].chain
        /\ chains[a].current_index = started[a]

====
